---------------------------- MODULE Spec2Model ----------------------------
(***************************************************************************)
(* Model of fiware_api_blueprint_renderer/src/renderer.py.                 *)
(*                                                                         *)
(* Text is modelled as sequences of one-character strings, so that the     *)
(* string operations of the program (replace, split, strip, startswith,    *)
(* the regular expressions) are computed and not assumed.  A file is a     *)
(* sequence of lines, every line ending with its newline character.        *)
(***************************************************************************)
EXTENDS Integers, Sequences, FiniteSets, TLC

VARIABLES
    \* separate_extra_sections_and_api_blueprint
    pc,                    \* position of the splitter: "title", "loop", "done"
    input_file,            \* the lines of the input document
    pos,                   \* number of lines the loop has read
    metadata_section,
    title_section,
    apib_part,
    parameters_section,
    extra_sections_file,   \* lines written to the metadata stream
    API_blueprint_file,    \* lines written to the blueprint stream
    \* parse_meta_data
    meta_pc,               \* position of parse_meta_data: "start", "more", "done"
    meta_file,             \* the lines of the metadata stream it reads
    meta_at,               \* number of lines read from it
    metadata,              \* the sections created so far
    more,                  \* the value parse_metadata_subsections returned
    \* render_api_specification: the enrichment passes
    ast_pc,                \* the pass to run next, or "rendered", "aborted"
    JSON_file,             \* the document in the staged JSON file
    \* get_links_from_description
    link_pc,               \* "call" before the call, "done" after it
    description,           \* the text searched for links
    links,                 \* the list returned
    \* one call of a function of the text layer
    call_pc,               \* "call" before the call, "done" after it
    callee,                \* the function called
    argument,              \* the text it is called with
    returned               \* what the call returned, or that it raised

splitVars == <<pc, input_file, pos, metadata_section, title_section, apib_part,
               parameters_section, extra_sections_file, API_blueprint_file>>

metaVars == <<meta_pc, meta_file, meta_at, metadata, more>>

astVars == <<ast_pc, JSON_file>>

linkVars == <<link_pc, description, links>>

callVars == <<call_pc, callee, argument, returned>>

vars == <<splitVars, metaVars, astVars, linkVars, callVars>>

\* what each component leaves alone
notSplitVars == <<metaVars, astVars, linkVars, callVars>>
notMetaVars == <<splitVars, astVars, linkVars, callVars>>
notAstVars == <<splitVars, metaVars, linkVars, callVars>>
notLinkVars == <<splitVars, metaVars, astVars, callVars>>
notCallVars == <<splitVars, metaVars, astVars, linkVars>>

-----------------------------------------------------------------------------
(* Bounds of the model *)

MaxLines == 4
MaxMetaLines == 5
MaxResources == 2
MaxActions == 2
MaxPayloads == 1
MaxFragments == 3
MaxAttributes == 2
MaxDepth == 3

-----------------------------------------------------------------------------
(* Strings as sequences of characters *)

NL == "\n"
TAB == "\t"

startswith(s, p) == Len(s) >= Len(p) /\ SubSeq(s, 1, Len(p)) = p

endswith(s, p) == Len(s) >= Len(p) /\ SubSeq(s, Len(s) - Len(p) + 1, Len(s)) = p

\* str.replace(c, r) for a one-character pattern c and a replacement string r
RECURSIVE replace(_, _, _)
replace(s, c, r) ==
    IF s = <<>> THEN <<>>
    ELSE IF Head(s) = c THEN r \o replace(Tail(s), c, r)
    ELSE <<Head(s)>> \o replace(Tail(s), c, r)

\* str.lstrip(cs): the string after its run of leading characters of cs
RECURSIVE lstrip_chars(_, _)
lstrip_chars(s, cs) == IF s # <<>> /\ Head(s) \in cs THEN lstrip_chars(Tail(s), cs) ELSE s

Whitespace == {" ", TAB, NL}

lstrip(s) == lstrip_chars(s, Whitespace)

RECURSIVE rstrip(_)
rstrip(s) ==
    IF s # <<>> /\ s[Len(s)] \in Whitespace THEN rstrip(SubSeq(s, 1, Len(s) - 1)) ELSE s

strip(s) == rstrip(lstrip(s))

\* index of the first occurrence of p in s, 0 when there is none (str.find + 1)
find(s, p) ==
    LET hits == {i \in 1..(Len(s) - Len(p) + 1) : SubSeq(s, i, i + Len(p) - 1) = p}
    IN IF hits = {} THEN 0 ELSE CHOOSE i \in hits : \A j \in hits : i <= j

\* the text a regular expression's final $ sees: $ matches at the end of the
\* string and just before a newline that ends the string
before_dollar(s) == IF s # <<>> /\ s[Len(s)] = NL THEN {s, SubSeq(s, 1, Len(s) - 1)} ELSE {s}

-----------------------------------------------------------------------------
(* LineClassifier: start_apib_section *)

REST_API == <<"#", " ", "R", "E", "S", "T", " ", "A", "P", "I">>

DATA_STRUCTURES ==
    <<"#", "#", " ", "D", "a", "t", "a", " ",
      "S", "t", "r", "u", "c", "t", "u", "r", "e", "s">>

\* the Group expression with one leading marker instead of "#*"
group_regex_top_level(line) ==
    startswith(line, <<"#", " ", "G", "r", "o", "u", "p">>)

\* "^#*[ ]Group([ \w\W\-\_]*)$": the class matches every character, newline included
group_regex(line) ==
    startswith(lstrip_chars(line, {"#"}), <<" ", "G", "r", "o", "u", "p">>)

\* "^#*[ ]([ \w\W\-\_]*) \[([ \w\W\-\_]*)\]$"
resource_regex(line) ==
    LET rest == lstrip_chars(line, {"#"})
    IN /\ startswith(rest, <<" ">>)
       /\ \E e \in before_dollar(rest) :
            /\ endswith(e, <<"]">>)
            /\ \E i \in 2..(Len(e) - 2) : e[i] = " " /\ e[i + 1] = "["

\* "^#*[ ]([ ]*[/][ \w\W\-\_]*)$"
direct_URI_regex(line) ==
    LET rest == lstrip_chars(line, {"#"})
    IN /\ startswith(rest, <<" ">>)
       /\ startswith(lstrip_chars(Tail(rest), {" "}), <<"/">>)

start_apib_section(line) ==
    \/ strip(line) = REST_API
    \/ strip(line) = DATA_STRUCTURES
    \/ group_regex(line)
    \/ resource_regex(line)
    \/ direct_URI_regex(line)

-----------------------------------------------------------------------------
(* DocumentSplitter *)

LPAREN_ENTITY == <<"&", "#", "4", "0", ";">>
RPAREN_ENTITY == <<"&", "#", "4", "1", ";">>

\* escape_parenthesis_in_parameter_description splitting at the last ' - '
escape_parenthesis_after_last_dash(parameter_definition) ==
    LET places == {i \in 1..(Len(parameter_definition) - 2) :
                      SubSeq(parameter_definition, i, i + 2) = <<" ", "-", " ">>}
    IN IF places = {} THEN parameter_definition
       ELSE LET at == CHOOSE i \in places : \A j \in places : j <= i
            IN SubSeq(parameter_definition, 1, at + 2) \o
               replace(replace(SubSeq(parameter_definition, at + 3, Len(parameter_definition)),
                               "(", LPAREN_ENTITY), ")", RPAREN_ENTITY)

escape_parenthesis_in_parameter_description(parameter_definition) ==
    LET sep == <<" ", "-", " ">>
        at == find(parameter_definition, sep)
    IN IF at > 0
       THEN LET parameter_header == SubSeq(parameter_definition, 1, at - 1)
                parameter_body == SubSeq(parameter_definition, at + 3,
                                         Len(parameter_definition))
            IN parameter_header \o sep \o
               replace(replace(parameter_body, "(", LPAREN_ENTITY), ")", RPAREN_ENTITY)
       ELSE parameter_definition

\* r"^[ \t]*[+|-][ ]([^ +-]*)[ ]*-?(.*)$": the first group takes k characters
\* that are no space, plus or minus (a newline is one of them); what follows is
\* taken by [ ]*-?(.*), which holds no newline, up to the final $
parameter_bullet_regex(line) ==
    LET body == lstrip_chars(line, {" ", TAB})
        rest == SubSeq(body, 3, Len(body))
    IN /\ Len(body) >= 2
       /\ body[1] \in {"+", "|", "-"}
       /\ body[2] = " "
       /\ \E k \in 0..Len(rest) :
            /\ \A i \in 1..k : rest[i] \notin {" ", "+", "-"}
            /\ \E e \in before_dollar(SubSeq(rest, k + 1, Len(rest))) :
                 \A i \in 1..Len(e) : e[i] # NL

\* r"^ *$"
blank_regex(line) == lstrip_chars(line, {" "}) \in {<<>>, <<NL>>}

PlainParametersHeader == <<"+", " ", "P", "a", "r", "a", "m", "e", "t", "e", "r", "s", NL>>

\* preprocess_apib_parameters_lines escaping whether or not a Parameters block is open
preprocess_always_escaping(line, defining_parameters) ==
    IF ~defining_parameters
    THEN [line |-> escape_parenthesis_in_parameter_description(line),
          defining_parameters |-> (line = PlainParametersHeader)]
    ELSE IF parameter_bullet_regex(line) \/ blank_regex(line)
         THEN [line |-> escape_parenthesis_in_parameter_description(line),
               defining_parameters |-> TRUE]
         ELSE [line |-> escape_parenthesis_in_parameter_description(line),
               defining_parameters |-> FALSE]

preprocess_apib_parameters_lines(line, defining_parameters) ==
    IF ~defining_parameters
    THEN [line |-> line, defining_parameters |-> (line = PlainParametersHeader)]
    ELSE IF parameter_bullet_regex(line) \/ blank_regex(line)
         THEN [line |-> escape_parenthesis_in_parameter_description(line),
               defining_parameters |-> TRUE]
         ELSE [line |-> line, defining_parameters |-> FALSE]

\* phase_flags copying the lines of the title phase to the metadata stream
phase_flags_copying_title(line, metadata_section0, title_section0, apib_part0) ==
    LET ends_front_matter == metadata_section0 /\ find(line, <<":">>) = 0
        metadata_section1 == IF ends_front_matter THEN FALSE ELSE metadata_section0
        title_section1 == IF ends_front_matter THEN TRUE ELSE title_section0
        title_section2 == IF title_section1 /\ startswith(line, <<"#", "#">>)
                          THEN FALSE ELSE title_section1
        apib_part1 == IF metadata_section1 \/ title_section2 \/ apib_part0
                      THEN apib_part0 ELSE start_apib_section(line)
    IN [metadata_section |-> metadata_section1, title_section |-> title_section2,
        apib_part |-> apib_part1, copy |-> ~metadata_section1 /\ ~apib_part1]

\* phase_flags classifying every line after the title, also once the blueprint began
phase_flags_reclassifying(line, metadata_section0, title_section0, apib_part0) ==
    LET ends_front_matter == metadata_section0 /\ find(line, <<":">>) = 0
        metadata_section1 == IF ends_front_matter THEN FALSE ELSE metadata_section0
        title_section1 == IF ends_front_matter THEN TRUE ELSE title_section0
        title_section2 == IF title_section1 /\ startswith(line, <<"#", "#">>)
                          THEN FALSE ELSE title_section1
        apib_part1 == IF metadata_section1 \/ title_section2
                      THEN apib_part0 ELSE start_apib_section(line)
    IN [metadata_section |-> metadata_section1, title_section |-> title_section2,
        apib_part |-> apib_part1,
        copy |-> ~metadata_section1 /\ ~title_section2 /\ ~apib_part1]

\* the body of the loop up to the choice of the stream (the flags after the
\* line, and whether the line is copied to the metadata stream)
phase_flags(line, metadata_section0, title_section0, apib_part0) ==
    LET ends_front_matter == metadata_section0 /\ find(line, <<":">>) = 0
        metadata_section1 == IF ends_front_matter THEN FALSE ELSE metadata_section0
        title_section1 == IF ends_front_matter THEN TRUE ELSE title_section0
    IN IF metadata_section1
       THEN [metadata_section |-> metadata_section1, title_section |-> title_section1,
             apib_part |-> apib_part0, copy |-> FALSE]
       ELSE LET title_section2 ==
                    IF title_section1 /\ startswith(line, <<"#", "#">>)
                    THEN FALSE ELSE title_section1
            IN IF title_section2
               THEN [metadata_section |-> metadata_section1,
                     title_section |-> title_section2,
                     apib_part |-> apib_part0, copy |-> FALSE]
               ELSE LET apib_part1 ==
                            IF ~apib_part0 THEN start_apib_section(line) ELSE apib_part0
                    IN [metadata_section |-> metadata_section1,
                        title_section |-> title_section2,
                        apib_part |-> apib_part1, copy |-> ~apib_part1]

FOUR_SPACES == <<" ", " ", " ", " ">>

\* what the loop writes to the blueprint stream for a line that is not copied
blueprint_line(line, defining_parameters) ==
    preprocess_apib_parameters_lines(replace(line, TAB, FOUR_SPACES), defining_parameters)

\* print_api_spec_title_to_extra_file: the first line that starts with "# ",
\* or nothing (the empty string readline returns at the end of the file)
RECURSIVE api_spec_title(_)
api_spec_title(lines) ==
    IF lines = <<>> THEN <<>>
    ELSE IF startswith(Head(lines), <<"#", " ">>) THEN <<Head(lines)>>
    ELSE api_spec_title(Tail(lines))

(* The lines the documents of the model are made of *)
FrontMatterLine == <<"k", ":", "v", NL>>
TitleLine == <<"#", " ", "T", NL>>
SectionLine == <<"#", "#", " ", "S", NL>>
TextLine == <<TAB, "x", " ", "-", " ", "(", "y", ")", NL>>
RestApiLine == REST_API \o <<NL>>
UriLine == <<"#", "#", " ", "/", "a", NL>>
BulletLine == <<"+", " ", "p", " ", "(", "a", ")", " ", "-", " ", "(", "b", ")", NL>>
BlankLine == <<NL>>

LineVocabulary ==
    {FrontMatterLine, TitleLine, SectionLine, TextLine, RestApiLine, UriLine,
     PlainParametersHeader, BulletLine, BlankLine}

Documents == UNION {[1..n -> LineVocabulary] : n \in 0..MaxLines}

IdleSplit ==
    /\ pc = "done"
    /\ input_file = <<>>
    /\ pos = 0
    /\ metadata_section = TRUE
    /\ apib_part = FALSE
    /\ title_section = FALSE
    /\ parameters_section = FALSE
    /\ extra_sections_file = <<>>
    /\ API_blueprint_file = <<>>

IdleMeta ==
    /\ meta_pc = "done"
    /\ meta_file = <<>>
    /\ meta_at = 0
    /\ metadata = <<>>
    /\ more = [none |-> TRUE, line |-> <<>>]

IdleAst ==
    /\ ast_pc = "rendered"
    /\ JSON_file = [resourceGroups |-> <<>>]

IdleLinks ==
    /\ link_pc = "done"
    /\ description = <<>>
    /\ links = <<>>

IdleCalls ==
    /\ call_pc = "done"
    /\ callee = "none"
    /\ argument = <<>>
    /\ returned = <<>>

InitSplit ==
    /\ pc = "title"
    /\ input_file \in Documents
    /\ pos = 0
    /\ metadata_section = TRUE
    /\ apib_part = FALSE
    /\ title_section = FALSE
    /\ parameters_section = FALSE
    /\ extra_sections_file = <<>>
    /\ API_blueprint_file = <<>>

PrintTitle ==
    /\ pc = "title"
    /\ extra_sections_file' = api_spec_title(input_file)
    /\ pc' = "loop"
    /\ UNCHANGED <<input_file, pos, metadata_section, title_section, apib_part,
                   parameters_section, API_blueprint_file>>
    /\ UNCHANGED notSplitVars

LoopLine ==
    /\ pc = "loop"
    /\ pos < Len(input_file)
    /\ LET line == input_file[pos + 1]
           f == phase_flags(line, metadata_section, title_section, apib_part)
           w == blueprint_line(line, parameters_section)
       IN /\ pos' = pos + 1
          /\ metadata_section' = f.metadata_section
          /\ title_section' = f.title_section
          /\ apib_part' = f.apib_part
          /\ IF f.copy
             THEN /\ extra_sections_file' = Append(extra_sections_file, line)
                  /\ UNCHANGED <<API_blueprint_file, parameters_section>>
             ELSE /\ API_blueprint_file' = Append(API_blueprint_file, w.line)
                  /\ parameters_section' = w.defining_parameters
                  /\ UNCHANGED extra_sections_file
    /\ UNCHANGED <<pc, input_file>>
    /\ UNCHANGED notSplitVars

EndOfInput ==
    /\ pc = "loop"
    /\ pos = Len(input_file)
    /\ pc' = "done"
    /\ UNCHANGED <<input_file, pos, metadata_section, title_section, apib_part,
                   parameters_section, extra_sections_file, API_blueprint_file>>
    /\ UNCHANGED notSplitVars

NextSplit == PrintTitle \/ LoopLine \/ EndOfInput

\* the specification of the splitter: the other components do not run
SplitterOnly == InitSplit /\ IdleMeta /\ IdleAst /\ IdleLinks /\ IdleCalls

Spec == SplitterOnly /\ [][NextSplit]_vars

-----------------------------------------------------------------------------
(* DocumentSplitter: properties *)

\* One step of the loop has read the line input_file[pos']
ReadsLine == pc = "loop" /\ pos' = pos + 1

\* The step appended exactly one line to the blueprint stream
AppendsToBlueprint ==
    /\ Len(API_blueprint_file') = Len(API_blueprint_file) + 1
    /\ SubSeq(API_blueprint_file', 1, Len(API_blueprint_file)) = API_blueprint_file

\* written is original with every tab replaced by four spaces and, when escaping
\* is allowed, some parentheses replaced by their entities; nothing else differs
RECURSIVE DiffersOnlyByFixups(_, _, _)
DiffersOnlyByFixups(original, written, escaping) ==
    IF original = <<>> THEN written = <<>>
    ELSE LET c == Head(original)
             rest == Tail(original)
             follows(prefix) ==
                 /\ startswith(written, prefix)
                 /\ DiffersOnlyByFixups(rest, SubSeq(written, Len(prefix) + 1, Len(written)),
                                        escaping)
         IN IF c = TAB THEN follows(<<" ", " ", " ", " ">>)
            ELSE \/ follows(<<c>>)
                 \/ escaping /\ c = "(" /\ follows(<<"&", "#", "4", "0", ";">>)
                 \/ escaping /\ c = ")" /\ follows(<<"&", "#", "4", "1", ";">>)

LastWritten == API_blueprint_file'[Len(API_blueprint_file')]

\* C1: every input line read from the first blueprint-classified line onward is
\* appended to the blueprint stream, once and in input order, and differs from
\* the input line only by tab -> four spaces and, while a Parameters block is
\* open, by escaped parentheses; a line the loop routes to the metadata stream
\* is appended to it verbatim.
C1_BlueprintRoundTrip ==
    [][ReadsLine =>
          /\ apib_part' =>
                /\ extra_sections_file' = extra_sections_file
                /\ AppendsToBlueprint
                /\ DiffersOnlyByFixups(input_file[pos'], LastWritten, parameters_section)
          /\ extra_sections_file' # extra_sections_file =>
                /\ extra_sections_file' = Append(extra_sections_file, input_file[pos'])
                /\ API_blueprint_file' = API_blueprint_file]_vars

EscapedBulletLine ==
    <<"+", " ", "p", " ", "(", "a", ")", " ", "-", " ",
      "&", "#", "4", "0", ";", "b", "&", "#", "4", "1", ";", NL>>

\* a section line was copied verbatim to the metadata stream, the blueprint
\* began, and its Parameters block escaped the parentheses of a description
C1_Witness ==
    /\ pc = "done"
    /\ apib_part
    /\ input_file = <<SectionLine, UriLine, PlainParametersHeader, BulletLine>>
    /\ extra_sections_file = <<SectionLine>>
    /\ API_blueprint_file = <<UriLine, PlainParametersHeader, EscapedBulletLine>>

\* C2 (as claimed): the line that ends front matter and the lines of the title
\* phase are written to neither stream.
C2_TitleLinesInNoStream ==
    [][(ReadsLine /\ (title_section' \/ (metadata_section /\ ~metadata_section'))) =>
          /\ extra_sections_file' = extra_sections_file
          /\ API_blueprint_file' = API_blueprint_file]_vars

\* C2 (amended): a line after which the title flag is set (the line that ends
\* front matter unless it begins with "##", and each line up to the next one
\* beginning with "##") is not written to the metadata stream by the loop and is
\* appended to the blueprint stream with the blueprint fixups; a line that ends
\* front matter and begins with "##" is routed by the classifier like any later
\* line; before the loop the metadata stream holds just the first line of the
\* document that begins with "# ", if any.
C2_TitleLinesToBlueprint ==
    /\ [][(ReadsLine /\ title_section') =>
            /\ extra_sections_file' = extra_sections_file
            /\ AppendsToBlueprint
            /\ DiffersOnlyByFixups(input_file[pos'], LastWritten, parameters_section)]_vars
    /\ [][(ReadsLine /\ metadata_section /\ ~metadata_section' /\ ~title_section') =>
            /\ startswith(input_file[pos'], <<"#", "#">>)
            /\ IF start_apib_section(input_file[pos'])
               THEN extra_sections_file' = extra_sections_file /\ AppendsToBlueprint
               ELSE /\ extra_sections_file' = Append(extra_sections_file, input_file[pos'])
                    /\ API_blueprint_file' = API_blueprint_file]_vars
    /\ [][pc = "title" =>
            \/ extra_sections_file' = <<>> /\
               \A i \in 1..Len(input_file) : ~startswith(input_file[i], <<"#", " ">>)
            \/ \E i \in 1..Len(input_file) :
                 /\ extra_sections_file' = <<input_file[i]>>
                 /\ startswith(input_file[i], <<"#", " ">>)
                 /\ \A j \in 1..(i - 1) : ~startswith(input_file[j], <<"#", " ">>)]_vars

\* the title phase has put the line ending front matter and a second title line
\* into the blueprint stream, and only the title is in the metadata stream
C2_Witness ==
    /\ title_section
    /\ pos = 3
    /\ input_file[2] = BlankLine
    /\ input_file[3] = TitleLine
    /\ API_blueprint_file = <<FrontMatterLine, BlankLine, TitleLine>>
    /\ extra_sections_file = <<TitleLine>>

AtMostOnePhaseFlag ==
    Cardinality({f \in {"metadata_section", "title_section", "apib_part"} :
                    CASE f = "metadata_section" -> metadata_section
                      [] f = "title_section" -> title_section
                      [] f = "apib_part" -> apib_part}) <= 1

\* front matter, title, metadata copying, blueprint: the order of the phases
PhaseRank ==
    IF metadata_section THEN 0 ELSE IF title_section THEN 1 ELSE IF apib_part THEN 3 ELSE 2

\* C3: at most one of the flags metadata_section, title_section and apib_part
\* is true after each line; the phases are passed in their order and a flag that
\* went false stays false; once apib_part is true it stays true and no later
\* line is written to the metadata stream.
C3_PhasesMonotone ==
    /\ []AtMostOnePhaseFlag
    /\ [][/\ PhaseRank' >= PhaseRank
          /\ metadata_section' => metadata_section
          /\ title_section' => (title_section \/ metadata_section)
          /\ apib_part => (apib_part' /\ extra_sections_file' = extra_sections_file)]_vars

\* every phase was passed: a front matter line, a title line, a copied section
\* and a blueprint line followed by a line the classifier does not recognise
C3_Witness ==
    /\ pc = "done"
    /\ apib_part /\ ~metadata_section /\ ~title_section
    /\ input_file = <<FrontMatterLine, TitleLine, SectionLine, RestApiLine>>
    /\ extra_sections_file = <<TitleLine, SectionLine>>
    /\ API_blueprint_file = <<FrontMatterLine, TitleLine, RestApiLine>>

-----------------------------------------------------------------------------
(* MetadataTreeBuilder *)

\* A value a Python name holds here: a string, or None
None == [none |-> TRUE, line |-> <<>>]
Str(s) == [none |-> FALSE, line |-> s]

\* "not v": None and the empty string are false
not(v) == v.none \/ v.line = <<>>

get_heading_level(heading) == Len(heading) - Len(lstrip_chars(heading, {"#"}))

\* file_descriptor.readline(): the next line, or "" at the end of the file
readline(lines, at) ==
    IF at < Len(lines) THEN [line |-> lines[at + 1], at |-> at + 1]
    ELSE [line |-> <<>>, at |-> at]

\* get_subsection_body: reads up to the next heading or the end of the file
RECURSIVE get_subsection_body_from(_, _, _)
get_subsection_body_from(lines, at, body) ==
    LET r == readline(lines, at)
    IN IF r.line # <<>> /\ ~startswith(r.line, <<"#">>)
       THEN get_subsection_body_from(lines, r.at, body \o r.line)
       ELSE [body |-> body, line |-> r.line, at |-> r.at]

get_subsection_body(lines, at) == get_subsection_body_from(lines, at, <<>>)

\* create_json_section; the tree is kept as the list of its sections in the
\* order of their creation, each with the index of the section whose
\* subsections list it was appended to (0 is the root): the subsections of a
\* section are the sections naming it, in this order
create_json_section(section_markdown_title, section_body, parent) ==
    [name |-> strip(lstrip_chars(section_markdown_title, {"#"})),
     heading |-> section_markdown_title,
     body |-> section_body,
     parent |-> parent]

\* swapped comparison: a heading of lower level is taken for a child
heading_relation_reversed(section_level, next_section_level) ==
    IF section_level = next_section_level THEN "sibling"
    ELSE IF section_level > next_section_level THEN "child"
    ELSE "unrelated"

\* a heading of the same level is taken for a child
heading_relation_nesting_equal(section_level, next_section_level) ==
    IF section_level <= next_section_level THEN "child" ELSE "unrelated"

\* the first comparison of parse_metadata_subsections
heading_relation(section_level, next_section_level) ==
    IF section_level = next_section_level THEN "sibling"
    ELSE IF section_level < next_section_level THEN "child"
    ELSE "unrelated"

\* parse_metadata_subsections(file_descriptor, parent_section_JSON, last_read_line):
\* the file position and the sections afterwards, and the value returned
RECURSIVE parse_metadata_subsections(_, _, _, _, _)
parse_metadata_subsections(lines, at, sections, parent, last_read_line) ==
    LET first == IF last_read_line.none THEN readline(lines, at)
                 ELSE [line |-> last_read_line.line, at |-> at]
        line == first.line
    IN IF line = <<>>
       THEN [at |-> first.at, sections |-> sections, result |-> Str(line)]
       ELSE IF ~startswith(line, <<"#">>)
       THEN [at |-> first.at, sections |-> sections, result |-> None]
       ELSE
         LET section_name == line
             b == get_subsection_body(lines, first.at)
             sections1 == Append(sections, create_json_section(section_name, b.body, parent))
             section_JSON == Len(sections1)
             section_level == get_heading_level(section_name)
             relation == heading_relation(section_level, get_heading_level(b.line))
         IN IF relation = "unrelated"
            THEN [at |-> b.at, sections |-> sections1, result |-> Str(b.line)]
            ELSE
              LET r == parse_metadata_subsections(
                           lines, b.at, sections1,
                           IF relation = "sibling" THEN parent ELSE section_JSON,
                           Str(b.line))
                  next_line == r.result
              IN IF not(next_line)
                 THEN r
                 ELSE IF section_level = get_heading_level(next_line.line)
                      THEN LET r2 == parse_metadata_subsections(
                                         lines, r.at, r.sections, parent, next_line)
                           IN [at |-> r2.at, sections |-> r2.sections, result |-> None]
                      ELSE r


(* The lines the metadata streams of the model are made of *)
Heading1 == <<"#", " ", "a", NL>>
Heading2 == <<"#", "#", " ", "b", NL>>
Heading3 == <<"#", "#", "#", " ", "c", NL>>
BodyLine == <<"t", NL>>

MetaVocabulary == {Heading1, Heading2, Heading3, BodyLine}

\* The streams the splitter can produce: the title line (the first line
\* beginning with "# "), if the document has one, and then the copied lines,
\* the first of which is the line beginning with "##" that ended the title phase
MetaStreams ==
    LET copied == {s \in UNION {[1..n -> MetaVocabulary] : n \in 0..MaxMetaLines} :
                      s # <<>> => startswith(s[1], <<"#", "#">>)}
    IN {s \in copied \cup {<<Heading1>> \o c : c \in copied} : Len(s) <= MaxMetaLines}

\* line 269: the root section is the index 0, the sections list starts empty
InitMeta ==
    /\ meta_pc = "start"
    /\ meta_file \in MetaStreams
    /\ meta_at = 0
    /\ metadata = <<>>
    /\ more = None

\* line 272
ParseFirst ==
    /\ meta_pc = "start"
    /\ LET r == parse_metadata_subsections(meta_file, meta_at, metadata, 0, None)
       IN /\ meta_at' = r.at
          /\ metadata' = r.sections
          /\ more' = r.result
    /\ meta_pc' = "more"
    /\ UNCHANGED meta_file
    /\ UNCHANGED notMetaVars

\* lines 273-274
ParseMore ==
    /\ meta_pc = "more"
    /\ ~not(more)
    /\ LET r == parse_metadata_subsections(meta_file, meta_at, metadata, 0, more)
       IN /\ meta_at' = r.at
          /\ metadata' = r.sections
          /\ more' = r.result
    /\ UNCHANGED <<meta_pc, meta_file>>
    /\ UNCHANGED notMetaVars

\* line 276
ReturnMetadata ==
    /\ meta_pc = "more"
    /\ not(more)
    /\ meta_pc' = "done"
    /\ UNCHANGED <<meta_file, meta_at, metadata, more>>
    /\ UNCHANGED notMetaVars

NextMeta == ParseFirst \/ ParseMore \/ ReturnMetadata

\* the specification of the metadata tree builder
MetaOnly == InitMeta /\ IdleSplit /\ IdleAst /\ IdleLinks /\ IdleCalls

SpecMeta == MetaOnly /\ [][NextMeta]_vars

-----------------------------------------------------------------------------
(* MetadataTreeBuilder: properties *)

\* the subsections of section p (0: the root), in document order
subsections(p) == SelectSeq([i \in 1..Len(metadata) |-> i], LAMBDA i : metadata[i].parent = p)

\* the heading levels of the stream, in order
RECURSIVE HeadingLevels(_)
HeadingLevels(lines) ==
    IF lines = <<>> THEN <<>>
    ELSE IF startswith(Head(lines), <<"#">>)
         THEN <<get_heading_level(Head(lines))>> \o HeadingLevels(Tail(lines))
         ELSE HeadingLevels(Tail(lines))

\* C4 (as claimed): for a stream with headings of depths 1,2,2,1 the root has
\* two children, the first with one subsection and the second with none.
C4_FirstChildHasOneSubsection ==
    (meta_pc = "done" /\ HeadingLevels(meta_file) = <<1, 2, 2, 1>>) =>
        /\ Len(subsections(0)) = 2
        /\ Len(subsections(subsections(0)[1])) = 1
        /\ Len(subsections(subsections(0)[2])) = 0

\* C4 (amended): for a stream with headings of depths 1,2,2,1 the root has
\* exactly two children (the depth 1 headings), the first with exactly two
\* subsections (both depth 2 headings, which have none) and the second with none.
C4_FirstChildHasTwoSubsections ==
    (meta_pc = "done" /\ HeadingLevels(meta_file) = <<1, 2, 2, 1>>) =>
        /\ Len(metadata) = 4
        /\ subsections(0) = <<1, 4>>
        /\ subsections(1) = <<2, 3>>
        /\ subsections(2) = <<>> /\ subsections(3) = <<>> /\ subsections(4) = <<>>

C4_Witness ==
    /\ meta_pc = "done"
    /\ meta_file = <<Heading1, Heading2, BodyLine, Heading2, Heading1>>
    /\ Len(subsections(1)) = 2

\* the heading level of section p, the root counting as 0
SectionLevel(p) == IF p = 0 THEN 0 ELSE get_heading_level(metadata[p].heading)

\* C5: every subsection of a section has a heading depth strictly greater than
\* the section's own depth, the root counting as depth 0.
C5_SubsectionsAreDeeper ==
    \A i \in 1..Len(metadata) :
        /\ metadata[i].parent \in 0..(i - 1)
        /\ SectionLevel(i) > SectionLevel(metadata[i].parent)

\* three levels are nested and a later, shallower heading has been attached
C5_Witness ==
    /\ meta_pc = "done"
    /\ \E i, j, k \in 1..Len(metadata) :
         /\ metadata[j].parent = i /\ metadata[k].parent = j
         /\ \E l \in (k + 1)..Len(metadata) : SectionLevel(l) < SectionLevel(k)

-----------------------------------------------------------------------------
(* Blueprint AST: the JSON document the enrichment passes load and dump.    *)
(* A JSON object is a record (a function of its keys), so that a key that   *)
(* was never set is not in its DOMAIN; a JSON array is a sequence.          *)

\* d[k] = v on a dict that may not hold k yet
SetKey(d, k, v) == (k :> v) @@ d

UPPERCASE ==
    <<"A", "B", "C", "D", "E", "F", "G", "H", "I", "J", "K", "L", "M",
      "N", "O", "P", "Q", "R", "S", "T", "U", "V", "W", "X", "Y", "Z">>
LOWERCASE ==
    <<"a", "b", "c", "d", "e", "f", "g", "h", "i", "j", "k", "l", "m",
      "n", "o", "p", "q", "r", "s", "t", "u", "v", "w", "x", "y", "z">>
DIGITS == {"0", "1", "2", "3", "4", "5", "6", "7", "8", "9"}

\* \w of the regular expressions
WordChars == {UPPERCASE[i] : i \in 1..26} \cup {LOWERCASE[i] : i \in 1..26} \cup DIGITS \cup {"_"}

\* str.lower()
lower(s) ==
    [i \in 1..Len(s) |->
        IF \E k \in 1..26 : UPPERCASE[k] = s[i]
        THEN LOWERCASE[CHOOSE k \in 1..26 : UPPERCASE[k] = s[i]]
        ELSE s[i]]

\* re.sub(cs+, separator, s): every run of characters of cs becomes one separator
RECURSIVE collapse_runs(_, _, _)
collapse_runs(s, cs, separator) ==
    IF s = <<>> THEN <<>>
    ELSE IF Head(s) \in cs
         THEN <<separator>> \o collapse_runs(lstrip_chars(s, cs), cs, separator)
         ELSE <<Head(s)>> \o collapse_runs(Tail(s), cs, separator)

\* the characters that re.sub('[^\w\s-]', '', value) keeps
SlugChars == WordChars \cup Whitespace \cup {"-"}

\* markdown.extensions.toc.slugify(value, separator):
\*   re.sub('[^\w\s-]', '', value).strip().lower(), then
\*   re.sub('[%s\s]+' % separator, separator, value)
slugify(value, separator) ==
    LET kept == SelectSeq(value, LAMBDA c : c \in SlugChars)
    IN collapse_runs(lower(strip(kept)), Whitespace \cup {separator}, separator)

RESOURCE_PREFIX == <<"r", "e", "s", "o", "u", "r", "c", "e", "_">>
ACTION_PREFIX == <<"a", "c", "t", "i", "o", "n", "_">>

\* the same f applied to every element of a JSON array
MapSeq(s, f(_)) == [i \in 1..Len(s) |-> f(s[i])]

\* the pass of the first, shadowed definition: the name of the resource is emptied
find_and_mark_emptying_name(json_content) ==
    LET mark(resource) ==
            IF Len(resource.actions) = 1 /\ resource.actions[1].name = resource.name
            THEN SetKey(SetKey(resource, "ignoreTOC", TRUE), "name", <<>>)
            ELSE IF Len(resource.actions) = 1
                 THEN SetKey(resource, "ignoreTOC", FALSE)
                 ELSE resource
        group(resource_group) ==
            [resource_group EXCEPT !.resources = MapSeq(@, mark)]
    IN [ok |-> TRUE,
        json |-> [json_content EXCEPT !.resourceGroups = MapSeq(@, group)]]

\* find_and_mark_empty_resources (the second definition, the one in force).
\* A pass gives the document it dumps, or fails and leaves the file as it was.
find_and_mark_empty_resources(json_content) ==
    LET mark(resource) ==
            IF Len(resource.actions) = 1
            THEN IF resource.actions[1].name = resource.name
                 THEN SetKey(resource, "ignoreTOC", TRUE)
                 ELSE SetKey(resource, "ignoreTOC", FALSE)
            ELSE resource
        group(resource_group) ==
            [resource_group EXCEPT !.resources = MapSeq(@, mark)]
    IN [ok |-> TRUE,
        json |-> [json_content EXCEPT !.resourceGroups = MapSeq(@, group)]]

LT_ENTITY == <<"&", "l", "t", ";">>
AMP_ENTITY == <<"&", "a", "m", "p", ";">>

\* an escaping of bodies that escapes the ampersand as well
escape_lt_and_ampersand(text) == replace(replace(text, "&", AMP_ENTITY), "<", LT_ENTITY)

\* .replace("<", "&lt;")
escape_lt(text) == replace(text, "<", LT_ENTITY)

escape_requests_responses_json(json_content) ==
    LET payload(request) ==
            IF request.body # <<>>
            THEN LET escaped == [request EXCEPT !.body = escape_lt(@)]
                 IN IF "sections" \notin DOMAIN request.content[1]
                    THEN [escaped EXCEPT !.content[1].content = escape_lt(@)]
                    ELSE escaped
            ELSE request
        example(e) ==
            [e EXCEPT !.requests = MapSeq(@, payload), !.responses = MapSeq(@, payload)]
        action(a) == [a EXCEPT !.examples = MapSeq(@, example)]
        resource(r) == [r EXCEPT !.actions = MapSeq(@, action)]
        group(g) == [g EXCEPT !.resources = MapSeq(@, resource)]
    IN [ok |-> TRUE,
        json |-> [json_content EXCEPT !.resourceGroups = MapSeq(@, group)]]


\* str.replace(old, new) for strings old and new: every occurrence of old, from
\* the left and without overlap, becomes new (between all characters when old is
\* empty); replacing a string by itself changes nothing
RECURSIVE replace_str(_, _, _)
replace_str(s, old, new) ==
    IF old = new THEN s
    ELSE IF old = <<>>
    THEN IF s = <<>> THEN new ELSE new \o <<Head(s)>> \o replace_str(Tail(s), old, new)
    ELSE LET at == find(s, old)
         IN IF at = 0 THEN s
            ELSE SubSeq(s, 1, at - 1) \o new
                 \o replace_str(SubSeq(s, at + Len(old), Len(s)), old, new)

\* the text json.dump writes before the value of a uriTemplate member
URI_TEMPLATE_KEY ==
    <<"\"", "u", "r", "i", "T", "e", "m", "p", "l", "a", "t", "e", "\"", ":", " ", "\"">>

\* One line of the dumped file and what escape_ampersand_uri_templates makes of
\* it.  json.dump(indent=4) ends the line of every member but the last of its
\* object with a comma, and URI_regex ends with "$ right after the closing
\* quote: the line matches only when uriTemplate is the last key of its object
\* (is_last_key).  The value read back from the rewritten line is returned.
escape_ampersand_uri_template_line(value, is_last_key) ==
    IF is_last_key
    THEN LET line == URI_TEMPLATE_KEY \o value \o <<"\"">>
             written == replace_str(line, value, replace(value, "&", AMP_ENTITY))
         IN SubSeq(written, Len(URI_TEMPLATE_KEY) + 1, Len(written) - 1)
    ELSE value

\* escape_ampersand_uri_templates; last_keyed names the kinds of object
\* ("resource", "attributes") that the dict order of the interpreter dumps with
\* uriTemplate as their last key
escape_ampersand_uri_templates(json_content, last_keyed) ==
    LET action(a) ==
            [a EXCEPT !.attributes.uriTemplate =
                escape_ampersand_uri_template_line(@, "attributes" \in last_keyed)]
        resource(r) ==
            [r EXCEPT !.uriTemplate =
                          escape_ampersand_uri_template_line(@, "resource" \in last_keyed),
                      !.actions = MapSeq(@, action)]
        group(g) == [g EXCEPT !.resources = MapSeq(@, resource)]
    IN [ok |-> TRUE,
        json |-> [json_content EXCEPT !.resourceGroups = MapSeq(@, group)]]

\* the innermost branch of generate_resources_and_action_ids reads
\* resource["ignoreTOC"], which raises KeyError when the key was never set
reads_ignoreTOC(action) == Len(action.name) = 0 /\ Len(action.attributes.uriTemplate) = 0

generate_resources_and_action_ids(json_content) ==
    LET action_id(resource, action) ==
            IF Len(action.name) > 0
            THEN ACTION_PREFIX \o slugify(action.name, "-")
            ELSE IF Len(action.attributes.uriTemplate) > 0
                 THEN ACTION_PREFIX \o slugify(action.attributes.uriTemplate, "-")
                 ELSE IF resource.ignoreTOC = TRUE
                      THEN ACTION_PREFIX \o
                           slugify(resource.uriTemplate \o action.method, "-")
                      ELSE ACTION_PREFIX \o slugify(resource.name \o action.method, "-")
        resource_id(resource) ==
            IF Len(resource.name) > 0
            THEN RESOURCE_PREFIX \o slugify(resource.name, "-")
            ELSE RESOURCE_PREFIX \o slugify(resource.uriTemplate, "-")
        with_ids(resource) ==
            LET r == SetKey(resource, "id", resource_id(resource))
            IN [r EXCEPT !.actions =
                   MapSeq(@, LAMBDA a : SetKey(a, "id", action_id(resource, a)))]
        group(g) == [g EXCEPT !.resources = MapSeq(@, with_ids)]
        raises ==
            \E g \in 1..Len(json_content.resourceGroups) :
              \E r \in 1..Len(json_content.resourceGroups[g].resources) :
                LET resource == json_content.resourceGroups[g].resources[r]
                IN /\ "ignoreTOC" \notin DOMAIN resource
                   /\ \E a \in 1..Len(resource.actions) : reads_ignoreTOC(resource.actions[a])
    IN IF raises
       THEN [ok |-> FALSE, json |-> json_content]
       ELSE [ok |-> TRUE,
             json |-> [json_content EXCEPT !.resourceGroups = MapSeq(@, group)]]

\* re.sub(" +", " ", name)
single_spaces(name) == collapse_runs(name, {" "}, " ")

remove_redundant_spaces(json_content) ==
    LET action(a) == [a EXCEPT !.name = single_spaces(@)]
        resource(r) == [r EXCEPT !.name = single_spaces(@), !.actions = MapSeq(@, action)]
        group(g) == [g EXCEPT !.name = single_spaces(@), !.resources = MapSeq(@, resource)]
    IN [ok |-> TRUE,
        json |-> [json_content EXCEPT !.resourceGroups = MapSeq(@, group)]]

add_is_pdf_metadata_to_json(is_PDF, json_content) ==
    [ok |-> TRUE, json |-> SetKey(json_content, "is_PDF", is_PDF)]


(* The documents the structural parser hands to the passes *)
NoName == <<>>
SpacedName == <<"A", " ", " ", "b">>
GroupName == <<"G", " ", " ", "g">>
GET == <<"G", "E", "T">>
POST == <<"P", "O", "S", "T">>
NoUri == <<>>
UriA == <<"/", "a">>
UriAB == <<"/", "a", "&", "b">>
UriC == <<"/", "c", "&">>
XmlBody == <<"<", "a", ">">>

Action(name, method, uriTemplate, examples) ==
    [name |-> name, method |-> method, attributes |-> [uriTemplate |-> uriTemplate],
     examples |-> examples]

\* the actions of the model: unnamed without a URI template of its own, unnamed
\* with one, named
Actions ==
    <<Action(NoName, GET, NoUri, <<>>), Action(NoName, POST, UriC, <<>>),
      Action(SpacedName, POST, NoUri, <<>>)>>

\* name and uriTemplate of the resources
ResourceHeadings ==
    <<[name |-> NoName, uriTemplate |-> UriA],
      [name |-> SpacedName, uriTemplate |-> UriA],
      [name |-> SpacedName, uriTemplate |-> UriAB]>>

\* Every pass handles each element of a list by itself, whatever its position:
\* the lists of the model take their elements in the order of the enumeration.
Ascending(k, n) == {f \in [1..k -> 1..n] : \A i \in 1..(k - 1) : f[i] <= f[i + 1]}

ActionLists(k) == {[i \in 1..k |-> Actions[f[i]]] : f \in Ascending(k, Len(Actions))}

\* the lists of count resources that hold at most n actions between them
RECURSIVE ResourceLists(_, _, _)
ResourceLists(count, n, first) ==
    IF count = 0 THEN {<<>>}
    ELSE UNION {
           {<<[name |-> ResourceHeadings[h].name,
               uriTemplate |-> ResourceHeadings[h].uriTemplate,
               actions |-> actions]>> \o rest :
               actions \in ActionLists(k), rest \in ResourceLists(count - 1, n - k, h)} :
           h \in first..Len(ResourceHeadings), k \in 0..n}

\* up to MaxResources resources with up to MaxActions actions between them
ResourceDocuments ==
    {[resourceGroups |-> <<[name |-> GroupName, resources |-> resources]>>] :
        resources \in UNION {ResourceLists(c, MaxActions, 1) : c \in 0..MaxResources}}

\* a request or response: without a body, with a body that is its first
\* content element, with a body whose first content element has sections
Payloads ==
    {[body |-> <<>>, content |-> <<>>],
     [body |-> XmlBody, content |-> <<[content |-> XmlBody]>>],
     [body |-> XmlBody, content |-> <<[sections |-> <<>>]>>]}

PayloadLists == UNION {[1..n -> Payloads] : n \in 0..MaxPayloads}

\* one resource with one action and its example
ExampleDocuments ==
    {[resourceGroups |->
        <<[name |-> GroupName,
           resources |->
             <<[name |-> SpacedName, uriTemplate |-> UriA,
                actions |->
                  <<Action(SpacedName, GET, NoUri,
                           <<[requests |-> requests, responses |-> responses]>>)>>]>>]>>] :
        requests \in PayloadLists, responses \in PayloadLists}

InitAst ==
    /\ ast_pc = "find_and_mark_empty_resources"
    /\ JSON_file \in ResourceDocuments \cup ExampleDocuments

\* a pass was run: it dumped its document, or it raised and the run is over
RunPass(result, next) ==
    /\ JSON_file' = result.json
    /\ ast_pc' = IF result.ok THEN next ELSE "aborted"
    /\ UNCHANGED notAstVars

\* line 959
MarkEmptyResources ==
    /\ ast_pc = "find_and_mark_empty_resources"
    /\ RunPass(find_and_mark_empty_resources(JSON_file), "escape_requests_responses_json")

\* line 961
EscapeRequestsResponses ==
    /\ ast_pc = "escape_requests_responses_json"
    /\ RunPass(escape_requests_responses_json(JSON_file), "escape_ampersand_uri_templates")

\* the kinds of object json.dump may end with their uriTemplate key: the order
\* of the keys of a dict is left to the interpreter
KeyOrders == SUBSET {"resource", "attributes"}

\* line 962
EscapeAmpersand ==
    /\ ast_pc = "escape_ampersand_uri_templates"
    /\ \E last_keyed \in KeyOrders :
         RunPass(escape_ampersand_uri_templates(JSON_file, last_keyed),
                 "generate_resources_and_action_ids")

\* line 963
GenerateIds ==
    /\ ast_pc = "generate_resources_and_action_ids"
    /\ RunPass(generate_resources_and_action_ids(JSON_file), "remove_redundant_spaces")

\* line 964
RemoveSpaces ==
    /\ ast_pc = "remove_redundant_spaces"
    /\ RunPass(remove_redundant_spaces(JSON_file), "add_is_pdf_metadata_to_json")

\* line 967: cover is not None
AddIsPdf ==
    /\ ast_pc = "add_is_pdf_metadata_to_json"
    /\ \E is_PDF \in BOOLEAN :
         RunPass(add_is_pdf_metadata_to_json(is_PDF, JSON_file), "rendered")

NextAst ==
    \/ MarkEmptyResources
    \/ EscapeRequestsResponses
    \/ EscapeAmpersand
    \/ GenerateIds
    \/ RemoveSpaces
    \/ AddIsPdf

AstOnly == InitAst /\ IdleSplit /\ IdleMeta /\ IdleLinks /\ IdleCalls

\* the specification of the enrichment passes
SpecAst == AstOnly /\ [][NextAst]_vars


-----------------------------------------------------------------------------
(* EnrichmentPipeline: properties *)

Resources(json_content) ==
    {json_content.resourceGroups[g].resources[r] :
        <<g, r>> \in {p \in (1..Len(json_content.resourceGroups)) \X (1..MaxResources + 1) :
                        p[2] <= Len(json_content.resourceGroups[p[1]].resources)}}

\* the lower-cased, dash-separated slug of a text
Slug(text) == slugify(text, "-")

\* the id the claim gives a resource and an action of it
ClaimedResourceId(resource) ==
    RESOURCE_PREFIX \o
        (IF resource.name # <<>> THEN Slug(resource.name) ELSE Slug(resource.uriTemplate))

ClaimedActionId(resource, action) ==
    ACTION_PREFIX \o
        (IF action.name # <<>> THEN Slug(action.name)
         ELSE IF action.attributes.uriTemplate # <<>>
              THEN Slug(action.attributes.uriTemplate)
              ELSE IF "ignoreTOC" \in DOMAIN resource /\ resource.ignoreTOC
                   THEN Slug(resource.uriTemplate \o action.method)
                   ELSE Slug(resource.name \o action.method))

IdsPassOver == ast_pc \in {"remove_redundant_spaces", "aborted"}

\* C6: after TOC-ignore marking and then id generation, the id pass has not
\* failed and every resource and every action (of resources with zero, one or
\* several actions) has the id of the fallback rule.
C6_EveryNodeGetsItsId ==
    IdsPassOver =>
        /\ ast_pc # "aborted"
        /\ \A resource \in Resources(JSON_file) :
             /\ "id" \in DOMAIN resource
             /\ resource.id = ClaimedResourceId(resource)
             /\ \A a \in 1..Len(resource.actions) :
                  /\ "id" \in DOMAIN resource.actions[a]
                  /\ resource.actions[a].id = ClaimedActionId(resource, resource.actions[a])

\* C7: after id generation, two different resources of the document with the
\* same name and different URI templates have different ids.
C7_SameNameResourcesHaveDistinctIds ==
    ast_pc = "remove_redundant_spaces" =>
        \A g \in 1..Len(JSON_file.resourceGroups) :
          LET resources == JSON_file.resourceGroups[g].resources
          IN \A i, j \in 1..Len(resources) :
               (i # j /\ resources[i].name = resources[j].name
                      /\ resources[i].uriTemplate # resources[j].uriTemplate)
                   => resources[i].id # resources[j].id


\* the second pass applied to what the first pass dumped, if it did not fail
Then(first, second(_)) == IF first.ok THEN second(first.json) ELSE first

\* the document as the structural parser left it: no pass has run
RawDocument == ast_pc = "find_and_mark_empty_resources"

\* a resource whose sole action shares its name
SharesName(resource) ==
    Len(resource.actions) = 1 /\ resource.actions[1].name = resource.name

IdsThenMarking ==
    Then(generate_resources_and_action_ids(JSON_file), find_and_mark_empty_resources)

MarkingThenIds ==
    Then(find_and_mark_empty_resources(JSON_file), generate_resources_and_action_ids)

\* C8 (as claimed): on a document with a resource whose sole action shares its
\* name, id generation before TOC-ignore marking completes and gives the same
\* document as TOC-ignore marking before id generation.
C8_PassesCommuteOnFixture ==
    (RawDocument /\ \E resource \in Resources(JSON_file) : SharesName(resource)) =>
        /\ IdsThenMarking.ok
        /\ IdsThenMarking = MarkingThenIds

\* C8 (amended): id generation before TOC-ignore marking completes exactly when
\* no action of the document has both an empty name and an empty URI template
\* of its own (the id pass then never reads ignoreTOC), and then marking before
\* id generation completes too and gives the same document; in particular, with
\* a resource whose sole action shares its empty name and has no URI template
\* of its own, id generation before marking fails, while marking flags that
\* resource ignoreTOC.
C8_PassesCommuteUnlessFlagIsRead ==
    RawDocument =>
        /\ IdsThenMarking.ok <=>
              \A resource \in Resources(JSON_file) :
                 \A a \in 1..Len(resource.actions) :
                    \/ resource.actions[a].name # <<>>
                    \/ resource.actions[a].attributes.uriTemplate # <<>>
        /\ IdsThenMarking.ok => (MarkingThenIds.ok /\ IdsThenMarking = MarkingThenIds)
        /\ \A resource \in Resources(JSON_file) :
              (SharesName(resource) /\ resource.name = <<>>
                  /\ resource.actions[1].attributes.uriTemplate = <<>>)
                => /\ ~IdsThenMarking.ok
                   /\ \E marked \in Resources(find_and_mark_empty_resources(JSON_file).json) :
                        /\ "ignoreTOC" \in DOMAIN marked /\ marked.ignoreTOC = TRUE
                        /\ marked.uriTemplate = resource.uriTemplate
                        /\ marked.actions = resource.actions

\* a resource whose sole action shares its non-empty name, next to an action
\* named only by its URI template: both orders complete, with ids and flags
C8_Witness ==
    /\ RawDocument
    /\ \E resource \in Resources(JSON_file) : SharesName(resource) /\ resource.name # <<>>
    /\ \E resource \in Resources(JSON_file) :
          ~SharesName(resource) /\ Len(resource.actions) = 1
    /\ IdsThenMarking.ok
    /\ \A resource \in Resources(MarkingThenIds.json) :
          /\ "id" \in DOMAIN resource
          /\ "ignoreTOC" \in DOMAIN resource

Twice(pass(_), json_content) == Then(pass(json_content), pass)

Idempotent(pass(_)) == Twice(pass, JSON_file) = pass(JSON_file)

IdempotentButAmpersand ==
    /\ Idempotent(find_and_mark_empty_resources)
    /\ Idempotent(escape_requests_responses_json)
    /\ Idempotent(generate_resources_and_action_ids)
    /\ Idempotent(remove_redundant_spaces)
    /\ \A is_PDF \in BOOLEAN :
          Idempotent(LAMBDA json_content : add_is_pdf_metadata_to_json(is_PDF, json_content))

AmpersandEscaping(last_keyed, json_content) ==
    escape_ampersand_uri_templates(json_content, last_keyed)

\* C9 (as claimed): each of TOC-ignore marking, '<' escaping, '&' escaping, id
\* generation, space collapsing and the is_PDF flag, applied twice in succession
\* to any document, gives the same document as applied once.
C9_EveryPassIdempotent ==
    /\ IdempotentButAmpersand
    /\ \A last_keyed \in KeyOrders :
          Idempotent(LAMBDA json_content : AmpersandEscaping(last_keyed, json_content))

\* the uriTemplate values of the document that the '&' escaping rewrites
EscapedUriTemplates(last_keyed, json_content) ==
    UNION {(IF "resource" \in last_keyed THEN {resource.uriTemplate} ELSE {}) \cup
           (IF "attributes" \in last_keyed
            THEN {resource.actions[a].attributes.uriTemplate : a \in 1..Len(resource.actions)}
            ELSE {}) : resource \in Resources(json_content)}

HasAmpersand(text) == \E i \in 1..Len(text) : text[i] = "&"

\* C9 (amended): TOC-ignore marking, '<' escaping of bodies, id generation,
\* space collapsing and the is_PDF flag are idempotent on every document; the
\* '&' escaping of URI templates is not: its second application is without
\* effect exactly when none of the uriTemplate values it rewrites holds an '&'
\* after the first (it turns each '&amp;' it wrote into '&amp;amp;').
C9_PassesIdempotentButAmpersand ==
    /\ IdempotentButAmpersand
    /\ \A last_keyed \in KeyOrders :
          LET once == AmpersandEscaping(last_keyed, JSON_file)
          IN Idempotent(LAMBDA json_content : AmpersandEscaping(last_keyed, json_content))
                <=> \A uri \in EscapedUriTemplates(last_keyed, once.json) : ~HasAmpersand(uri)

\* the pipeline has run every pass once on a document with a '<' in a body and
\* a doubled space in its names: what a second application would work on
C9_Witness ==
    /\ ast_pc = "rendered"
    /\ "is_PDF" \in DOMAIN JSON_file
    /\ \E resource \in Resources(JSON_file) :
          /\ resource.name = <<"A", " ", "b">>
          /\ "id" \in DOMAIN resource /\ "ignoreTOC" \in DOMAIN resource
          /\ Len(resource.actions) = 1
          /\ Len(resource.actions[1].examples) = 1
          /\ Len(resource.actions[1].examples[1].requests) = 1
          /\ resource.actions[1].examples[1].requests[1].body = LT_ENTITY \o <<"a", ">">>


-----------------------------------------------------------------------------
(* Link extraction: get_links_from_description *)

Brackets == {"(", ")", "[", "]"}

\* the longest prefix of s made of characters outside cs
RECURSIVE run_outside(_, _)
run_outside(s, cs) ==
    IF s # <<>> /\ Head(s) \notin cs THEN <<Head(s)>> \o run_outside(Tail(s), cs) ELSE <<>>

drop(s, n) == SubSeq(s, n + 1, Len(s))

\* "\[(?P<linkText>[^\(\)\[\]]*)\]\((?P<linkRef>[^\(\)\[\]]*)\)" matched at the
\* start of s: the groups and the length of the match, or no match
link_regex_at(s) ==
    IF s # <<>> /\ Head(s) = "["
    THEN LET linkText == run_outside(Tail(s), Brackets)
             after_text == drop(s, 1 + Len(linkText))
         IN IF startswith(after_text, <<"]", "(">>)
            THEN LET linkRef == run_outside(drop(after_text, 2), Brackets)
                     after_ref == drop(after_text, 2 + Len(linkRef))
                 IN IF startswith(after_ref, <<")">>)
                    THEN [match |-> TRUE, groups |-> <<linkText, linkRef>>,
                          length |-> Len(linkText) + Len(linkRef) + 4]
                    ELSE [match |-> FALSE]
            ELSE [match |-> FALSE]
    ELSE [match |-> FALSE]

HTTP == <<"h", "t", "t", "p">>
COLON_SLASHES == <<":", "/", "/">>

\* http[s]?:// at the start of s: its length, 0 when s does not start with it
http_prefix(s) ==
    IF startswith(s, HTTP \o COLON_SLASHES) THEN 7
    ELSE IF startswith(s, HTTP \o <<"s">> \o COLON_SLASHES) THEN 8
    ELSE 0

\* the part of s that .* can run over: up to the first newline
line_of(s) == run_outside(s, {NL})

\* "\<(?P<linkRef>http[s]?://.*)\>" matched at the start of s: the greedy .*
\* runs to the last ">" of the line
auto_link_regex_at(s) ==
    IF s # <<>> /\ Head(s) = "<" /\ http_prefix(Tail(s)) > 0
    THEN LET rest == line_of(Tail(s))
             closes == {i \in (http_prefix(Tail(s)) + 1)..Len(rest) : rest[i] = ">"}
         IN IF closes # {}
            THEN LET last == CHOOSE i \in closes : \A j \in closes : j <= i
                 IN [match |-> TRUE, groups |-> SubSeq(rest, 1, last - 1),
                     length |-> last + 1]
            ELSE [match |-> FALSE]
    ELSE [match |-> FALSE]

A_HREF == <<"<", "a", " ", "h", "r", "e", "f", "=", "\"">>
A_CLOSE == <<"<", "/", "a", ">">>

\* "\<a href=\"(?P<linkRef>http[s]?://.*)\"\>(?P<linkText>[^\<]*)\</a>" matched
\* at the start of s: the greedy .* runs to the last "> of the line that is
\* followed by a text without "<" and by </a>
html_link_regex_at(s) ==
    IF startswith(s, A_HREF) /\ http_prefix(drop(s, Len(A_HREF))) > 0
    THEN LET rest == drop(s, Len(A_HREF))
             reach == Len(line_of(rest))
             ends == {i \in (http_prefix(rest) + 1)..reach :
                        /\ startswith(drop(rest, i - 1), <<"\"", ">">>)
                        /\ startswith(drop(rest, i + 1 + Len(run_outside(drop(rest, i + 1), {"<"}))),
                                      A_CLOSE)}
         IN IF ends # {}
            THEN LET last == CHOOSE i \in ends : \A j \in ends : j <= i
                     linkText == run_outside(drop(rest, last + 1), {"<"})
                 IN [match |-> TRUE, groups |-> <<SubSeq(rest, 1, last - 1), linkText>>,
                     length |-> Len(A_HREF) + last + 1 + Len(linkText) + Len(A_CLOSE)]
            ELSE [match |-> FALSE]
    ELSE [match |-> FALSE]

\* regex.findall(s): the groups of the leftmost matches that do not overlap
RECURSIVE findall(_, _)
findall(regex_at(_), s) ==
    IF s = <<>> THEN <<>>
    ELSE LET m == regex_at(s)
         IN IF m.match THEN <<m.groups>> \o findall(regex_at, drop(s, m.length))
            ELSE findall(regex_at, Tail(s))

get_links_from_description(text) ==
    LET link_matches == findall(link_regex_at, text)
        auto_link_matches == findall(auto_link_regex_at, text)
        html_link_matches == findall(html_link_regex_at, text)
    IN IF link_matches # <<>>
       THEN MapSeq(link_matches, LAMBDA g : [title |-> g[1], url |-> g[2]])
       ELSE IF auto_link_matches # <<>>
            THEN MapSeq(auto_link_matches, LAMBDA g : [title |-> g, url |-> g])
            ELSE IF html_link_matches # <<>>
                 THEN MapSeq(html_link_matches, LAMBDA g : [title |-> g[2], url |-> g[1]])
                 ELSE <<>>

(* The texts the descriptions of the model are made of *)
UrlX == HTTP \o COLON_SLASHES \o <<"x">>
UrlY == HTTP \o COLON_SLASHES \o <<"y">>
UrlZ == HTTP \o <<"s">> \o COLON_SLASHES \o <<"z">>
PlainText == <<"S", "e", "e", " ">>
BracketLink == <<"[", "d", "]", "(">> \o UrlX \o <<")">>
AutoLink == <<"<">> \o UrlY \o <<">">>
HtmlLink == A_HREF \o UrlZ \o <<"\"", ">", "t">> \o A_CLOSE
BracketedText == <<"[", "n", "]">>

Fragments == {PlainText, BracketLink, AutoLink, HtmlLink, BracketedText}

RECURSIVE Concatenation(_)
Concatenation(parts) == IF parts = <<>> THEN <<>> ELSE Head(parts) \o Concatenation(Tail(parts))

Descriptions == {Concatenation(parts) : parts \in UNION {[1..n -> Fragments] : n \in 0..MaxFragments}}

InitLinks ==
    /\ link_pc = "call"
    /\ description \in Descriptions
    /\ links = <<>>

ExtractLinks ==
    /\ link_pc = "call"
    /\ links' = get_links_from_description(description)
    /\ link_pc' = "done"
    /\ UNCHANGED description
    /\ UNCHANGED notLinkVars

NextLinks == ExtractLinks

LinksOnly == InitLinks /\ IdleSplit /\ IdleMeta /\ IdleAst /\ IdleCalls

\* the specification of the link extraction
SpecLinks == LinksOnly /\ [][NextLinks]_vars

-----------------------------------------------------------------------------
(* Link extraction: properties *)

Contains(text, part) == find(text, part) > 0

Returned(link) == \E i \in 1..Len(links) : links[i] = link

\* C10: for a description that holds both a bracket link [t](u) and an autolink
\* <http://v>, the list returned holds a link for each: {title: t, url: u} and
\* {title: http://v, url: http://v}.
C10_EveryNotationCollected ==
    (link_pc = "done" /\ Contains(description, BracketLink)
                      /\ Contains(description, AutoLink)
                      /\ ~Contains(description, HtmlLink)) =>
        /\ Returned([title |-> <<"d">>, url |-> UrlX])
        /\ \E i \in 1..Len(links) : links[i].title = links[i].url /\ startswith(links[i].url, UrlY)


-----------------------------------------------------------------------------
(* Property declarations: parse_property_member_declaration *)

\* what a call returned: a value, or an exception
Returns(value) == [raised |-> FALSE, value |-> value]
Raises == [raised |-> TRUE]

\* the empty dict {}
EmptyDict == [k \in {} |-> k]

\* the longest prefix of s made of characters of cs
RECURSIVE run_inside(_, _)
run_inside(s, cs) ==
    IF s # <<>> /\ Head(s) \in cs THEN <<Head(s)>> \o run_inside(Tail(s), cs) ELSE <<>>

\* str.split(sep) for a one-character separator
RECURSIVE split(_, _)
split(s, sep) ==
    LET first == run_outside(s, {sep})
    IN IF Len(first) = Len(s) THEN <<s>>
       ELSE <<first>> \o split(drop(s, Len(first) + 1), sep)

REQUIRED == <<"r", "e", "q", "u", "i", "r", "e", "d">>
OPTIONAL == <<"o", "p", "t", "i", "o", "n", "a", "l">>
FIXED == <<"f", "i", "x", "e", "d">>
SAMPLE == <<"s", "a", "m", "p", "l", "e">>
DEFAULT == <<"d", "e", "f", "a", "u", "l", "t">>

\* reserved_keywords['type_attribute']
type_attribute == {REQUIRED, OPTIONAL, FIXED, SAMPLE, DEFAULT}

NoMatch == [match |-> FALSE]

\* the end of regex_string, "[ ]*(?:[-](?P<property_description>[ \w\W]+))?\Z",
\* matched against the whole of s
declaration_tail(s) ==
    LET rest == lstrip_chars(s, {" "})
    IN IF rest = <<>> THEN [match |-> TRUE, property_description |-> None]
       ELSE IF Head(rest) = "-" /\ Len(rest) >= 2
            THEN [match |-> TRUE, property_description |-> Str(Tail(rest))]
            ELSE NoMatch

\* the optional group of regex_string,
\* "(?:[[: ][\w, ]*]?[ ]*\((?P<type_definition_list>[\w\W ]+)\))?", followed by
\* the end of the expression, matched against the whole of s: one character of
\* "[: ", then up to the first "(" only word characters, commas and spaces, a
\* "]" and spaces; the greedy type_definition_list runs to the last ")" that
\* the end of the expression can follow
declaration_group(s) ==
    IF s = <<>> \/ Head(s) \notin {"[", ":", " "} THEN NoMatch
    ELSE LET open == find(Tail(s), <<"(">>)
             before == SubSeq(Tail(s), 1, open - 1)
             after_run == drop(before, Len(run_inside(before, WordChars \cup {",", " "})))
             after_bracket == IF startswith(after_run, <<"]">>) THEN Tail(after_run) ELSE after_run
             inner == drop(Tail(s), open)
             closes == {p \in 2..Len(inner) :
                          inner[p] = ")" /\ declaration_tail(drop(inner, p)).match}
         IN IF open = 0 \/ lstrip_chars(after_bracket, {" "}) # <<>> \/ closes = {}
            THEN NoMatch
            ELSE LET last == CHOOSE p \in closes : \A q \in closes : q <= p
                 IN [match |-> TRUE,
                     type_definition_list |-> Str(SubSeq(inner, 1, last - 1)),
                     property_description |->
                         declaration_tail(drop(inner, last)).property_description]

\* declaration_regex.match(s): regex_string is
\*   "^[ ]*[-|+][ ](?P<property_name>\w+)[ ]*" followed by the optional group and
\*   the end of the expression.
\* The "[ ]*" after the name is greedy: the group is tried after all the spaces,
\* then the expression without the group, then the group after fewer spaces.
declaration_regex(s) ==
    LET body == lstrip_chars(s, {" "})
    IN IF ~(Len(body) >= 3 /\ body[1] \in {"-", "|", "+"} /\ body[2] = " "
                           /\ body[3] \in WordChars)
       THEN NoMatch
       ELSE LET property_name == run_inside(drop(body, 2), WordChars)
                rest == drop(body, 2 + Len(property_name))
                spaces == Len(rest) - Len(lstrip_chars(rest, {" "}))
                grouped == {n \in 0..spaces : declaration_group(drop(rest, n)).match}
                group_after(n) ==
                    [name |-> property_name] @@ declaration_group(drop(rest, n))
            IN IF spaces \in grouped THEN group_after(spaces)
               ELSE IF declaration_tail(rest).match
                    THEN [name |-> property_name, type_definition_list |-> None]
                         @@ declaration_tail(rest)
                    ELSE IF grouped # {}
                         THEN group_after(CHOOSE n \in grouped : \A m \in grouped : m <= n)
                         ELSE NoMatch

\* the loop over type_definition_list.split(','): every token that is not a
\* reserved keyword is stored as the type, the keyword 'required' sets required
RECURSIVE type_specification(_, _)
type_specification(attributes, property_declaration) ==
    IF attributes = <<>> THEN property_declaration
    ELSE LET attribute == strip(Head(attributes))
         IN type_specification(Tail(attributes),
              IF attribute \notin type_attribute
              THEN SetKey(property_declaration, "type", attribute)
              ELSE IF attribute = REQUIRED
                   THEN [property_declaration EXCEPT !.required = TRUE]
                   ELSE property_declaration)

\* parse_property_member_declaration: declaration_match is None when the line
\* does not match and type_definition_list is None when the line has no
\* attribute list; .groupdict() and .split(',') raise AttributeError on None
parse_property_member_declaration(property_member_declaration_string) ==
    IF property_member_declaration_string = <<>> THEN Returns(EmptyDict)
    ELSE LET declaration_dict == declaration_regex(property_member_declaration_string)
         IN IF ~declaration_dict.match THEN Raises
            ELSE IF declaration_dict.type_definition_list.none THEN Raises
            ELSE Returns(type_specification(
                     split(declaration_dict.type_definition_list.line, ","),
                     [name |-> declaration_dict.name,
                      description |-> declaration_dict.property_description,
                      subproperties |-> <<>>,
                      values |-> <<>>,
                      required |-> FALSE]))


(* The declaration lines of the model: "+ id", an attribute list, a description *)
STRING_TYPE == <<"s", "t", "r", "i", "n", "g">>
NUMBER_TYPE == <<"n", "u", "m", "b", "e", "r">>

AttributeTokens == {STRING_TYPE, NUMBER_TYPE, REQUIRED, OPTIONAL}

AttributeLists == UNION {[1..n -> AttributeTokens] : n \in 0..MaxAttributes}

\* str.join for the separator ", "
RECURSIVE join(_)
join(tokens) ==
    IF tokens = <<>> THEN <<>>
    ELSE IF Len(tokens) = 1 THEN tokens[1]
    ELSE tokens[1] \o <<",", " ">> \o join(Tail(tokens))

PropertyName == <<"i", "d">>

DescriptionTexts ==
    {<<"t", "h", "e", " ", "i", "d">>,
     <<"i", "d", " ", "(", "x", ")">>,
     <<"(", "x", ")", " ", "y">>}

\* '+ <name> (<attribute list>) - <description>'; without the attribute list
\* when attributes is empty, without the description when it is None
Declaration(attributes, text) ==
    <<"+", " ">> \o PropertyName
    \o (IF attributes = <<>> THEN <<>> ELSE <<" ", "(">> \o join(attributes) \o <<")">>)
    \o (IF text.none THEN <<>> ELSE <<" ", "-", " ">> \o text.line)

DeclarationTexts == {None} \cup {Str(t) : t \in DescriptionTexts}

DeclarationLines ==
    {Declaration(attributes, text) : attributes \in AttributeLists, text \in DeclarationTexts}

-----------------------------------------------------------------------------
(* Header identity: extract_markdown_header_dict *)

\* the indexes of text where " [" starts and a "]" follows the rest of the
\* qualifier: after " [" comes with_method, a run of word characters and a
\* space, or nothing
qualifier_starts(text, with_method) ==
    {i \in 1..(Len(text) - 1) :
        /\ text[i] = " " /\ text[i + 1] = "["
        /\ LET inside == drop(text, i + 1)
               word == run_inside(inside, WordChars)
               rest == IF with_method THEN drop(inside, Len(word) + 1) ELSE inside
           IN /\ with_method => startswith(drop(inside, Len(word)), <<" ">>)
              /\ \E j \in 1..Len(rest) : rest[j] = "]"}

\* re.compile("(.*) \[(\w*) (.*)\]").match(text) and
\* re.compile("(.*) \[(.*)\]").match(text): the first greedy group runs to the
\* last " [" that the rest of the expression can follow, the last greedy group
\* to the last "]" of the line
header_regex(text, with_method) ==
    LET line == line_of(text)
        starts == qualifier_starts(line, with_method)
    IN IF starts = {} THEN NoMatch
       ELSE LET i == CHOOSE s \in starts : \A t \in starts : t <= s
                inside == drop(line, i + 1)
                word == run_inside(inside, WordChars)
                rest == IF with_method THEN drop(inside, Len(word) + 1) ELSE inside
                close == CHOOSE j \in 1..Len(rest) :
                            rest[j] = "]" /\ \A k \in (j + 1)..Len(rest) : rest[k] # "]"
            IN [match |-> TRUE,
                groups |-> IF with_method
                           THEN <<SubSeq(line, 1, i - 1), word, SubSeq(rest, 1, close - 1)>>
                           ELSE <<SubSeq(line, 1, i - 1), SubSeq(rest, 1, close - 1)>>]

\* extract_markdown_header_dict; p.match(...).groups() raises AttributeError
\* when the second expression does not match either
extract_markdown_header_dict(markdown_header) ==
    LET header == strip(lstrip_chars(markdown_header, {"#"}))
        action_header == header_regex(header, TRUE)
        resource_header == header_regex(header, FALSE)
    IN IF action_header.match
       THEN Returns([name |-> action_header.groups[1],
                     method |-> action_header.groups[2],
                     uriTemplate |-> action_header.groups[3]])
       ELSE IF resource_header.match
            THEN Returns([name |-> resource_header.groups[1],
                          uriTemplate |-> resource_header.groups[2]])
            ELSE Raises


(* The headers of the model: markers, a name, a qualifier in brackets *)
Markers(n) == [i \in 1..n |-> "#"]

PlainName == <<"A">>
BracketedName == <<"A", " ", "[", "b", " ", "c", "]">>
HeaderNames == {PlainName, BracketedName}

HeaderUri == <<"/", "u">>

\* the qualifiers: none, a URI template, a method and a URI template
NoQualifier == [none |-> TRUE]
Qualifier(method, uriTemplate) == [none |-> FALSE, method |-> method, uriTemplate |-> uriTemplate]
Qualifiers == {NoQualifier, Qualifier(None, HeaderUri), Qualifier(Str(GET), HeaderUri)}

Header(n, name, qualifier) ==
    Markers(n) \o <<" ">> \o name
    \o (IF qualifier.none THEN <<>>
        ELSE <<" ", "[">>
             \o (IF qualifier.method.none THEN <<>> ELSE qualifier.method.line \o <<" ">>)
             \o qualifier.uriTemplate \o <<"]">>)

LineEndings == {<<>>, <<NL>>}

HeaderLines ==
    {Header(n, name, qualifier) \o ending :
        n \in 0..MaxDepth, name \in HeaderNames, qualifier \in Qualifiers,
        ending \in LineEndings}

(* The headings the classifier is called with *)
REST_API_TITLE == SubSeq(REST_API, 3, Len(REST_API))
DATA_STRUCTURES_TITLE == SubSeq(DATA_STRUCTURES, 4, Len(DATA_STRUCTURES))
GROUP_TITLE == <<"G", "r", "o", "u", "p", " ", "A">>
RESOURCE_TITLE == <<"A", " ", "[", "/", "u", "]">>
URI_TITLE == <<"/", "u">>
TEXT_TITLE == <<"T", "e", "x", "t">>

LiteralTitles == {REST_API_TITLE, DATA_STRUCTURES_TITLE}
PatternTitles == {GROUP_TITLE, RESOURCE_TITLE, URI_TITLE}
RecognisedTitles == LiteralTitles \cup PatternTitles

Heading(n, title) == Markers(n) \o <<" ">> \o title

HeadingLines ==
    {Heading(n, title) \o ending :
        n \in 1..MaxDepth, title \in RecognisedTitles \cup {TEXT_TITLE},
        ending \in LineEndings}

-----------------------------------------------------------------------------
(* One call of a function of the text layer *)

Calls ==
    ({"parse_property_member_declaration"} \X DeclarationLines)
    \cup ({"extract_markdown_header_dict"} \X HeaderLines)
    \cup ({"start_apib_section"} \X HeadingLines)

InitCalls ==
    /\ call_pc = "call"
    /\ \E c \in Calls : callee = c[1] /\ argument = c[2]
    /\ returned = <<>>

Return(value) ==
    /\ call_pc = "call"
    /\ returned' = value
    /\ call_pc' = "done"
    /\ UNCHANGED <<callee, argument>>
    /\ UNCHANGED notCallVars

ParsePropertyMemberDeclaration ==
    /\ callee = "parse_property_member_declaration"
    /\ Return(parse_property_member_declaration(argument))

ExtractMarkdownHeaderDict ==
    /\ callee = "extract_markdown_header_dict"
    /\ Return(extract_markdown_header_dict(argument))

StartApibSection ==
    /\ callee = "start_apib_section"
    /\ Return(Returns(start_apib_section(argument)))

NextCalls ==
    \/ ParsePropertyMemberDeclaration
    \/ ExtractMarkdownHeaderDict
    \/ StartApibSection

CallsOnly == InitCalls /\ IdleSplit /\ IdleMeta /\ IdleAst /\ IdleLinks

\* the specification of the calls of the text layer
SpecCalls == CallsOnly /\ [][NextCalls]_vars

-----------------------------------------------------------------------------
(* Text layer: properties *)

Called(function, text) == call_pc = "done" /\ callee = function /\ argument = text

FirstType(attributes) ==
    LET types == SelectSeq(attributes, LAMBDA a : a \notin type_attribute)
    IN IF types = <<>> THEN None ELSE Str(types[1])

IsRequired(attributes) == \E i \in 1..Len(attributes) : attributes[i] = REQUIRED

\* C11: for a declaration '+ <name> (<attribute list>) - <description>',
\* parse_property_member_declaration returns a property whose name is <name>,
\* whose description is exactly <description>, whose required is true iff
\* 'required' is in the attribute list, and whose type is the first token of
\* the list that is not a reserved keyword.
C11_DeclarationFields ==
    \A attributes \in AttributeLists \ {<<>>}, text \in DescriptionTexts :
        Called("parse_property_member_declaration", Declaration(attributes, Str(text))) =>
            /\ ~returned.raised
            /\ returned.value.name = PropertyName
            /\ returned.value.description = Str(text)
            /\ returned.value.required = IsRequired(attributes)
            /\ ~FirstType(attributes).none =>
                  /\ "type" \in DOMAIN returned.value
                  /\ returned.value.type = FirstType(attributes).line

\* C20: for a declaration with a name and no attribute list, with or without
\* a description, parse_property_member_declaration does not raise and returns
\* a property with that name, required false and no type.
C20_AttributeListOptional ==
    \A text \in DeclarationTexts :
        Called("parse_property_member_declaration", Declaration(<<>>, text)) =>
            /\ ~returned.raised
            /\ returned.value.name = PropertyName
            /\ returned.value.required = FALSE
            /\ "type" \notin DOMAIN returned.value

\* C16: for a header 'Name [METHOD /uri]' extract_markdown_header_dict returns
\* {name, method, uriTemplate}; for 'Name [/uri]' it returns {name, uriTemplate}
\* without a method, also when Name holds a bracketed phrase with a space; for a
\* header without a qualifier it raises.
C16_HeaderIdentity ==
    \A n \in 0..MaxDepth, name \in HeaderNames, qualifier \in Qualifiers, ending \in LineEndings :
        Called("extract_markdown_header_dict", Header(n, name, qualifier) \o ending) =>
            IF qualifier.none
            THEN name = PlainName => returned.raised
            ELSE /\ ~returned.raised
                 /\ returned.value =
                      IF qualifier.method.none
                      THEN [name |-> name, uriTemplate |-> qualifier.uriTemplate]
                      ELSE [name |-> name, method |-> qualifier.method.line,
                            uriTemplate |-> qualifier.uriTemplate]


\* C14 (as claimed): for each recognised form and every number n >= 1 of
\* leading markers, start_apib_section returns true.
C14_EveryDepthRecognised ==
    \A n \in 1..MaxDepth, title \in RecognisedTitles, ending \in LineEndings :
        Called("start_apib_section", Heading(n, title) \o ending) => returned.value = TRUE

\* C14 (amended): a Group heading, a '<title> [<qualifier>]' heading and a URI
\* heading are recognised with any number n >= 1 of leading markers; the heading
\* 'REST API' is recognised with exactly one marker and the heading
\* 'Data Structures' with exactly two, and with no other number.
C14_PatternsAtEveryDepth ==
    \A n \in 1..MaxDepth, title \in RecognisedTitles, ending \in LineEndings :
        Called("start_apib_section", Heading(n, title) \o ending) =>
            returned.value = CASE title = REST_API_TITLE -> n = 1
                               [] title = DATA_STRUCTURES_TITLE -> n = 2
                               [] OTHER -> TRUE

C14_Witness ==
    /\ Called("start_apib_section", Heading(3, GROUP_TITLE) \o <<NL>>)
    /\ returned.value = TRUE


-----------------------------------------------------------------------------
(* ParameterValueAnnotator: add_description_to_json_parameter_value *)

\* the last <<parameter, value>> whose names are parameter_name and value_name:
\* the loops of add_description_to_json_object_parameter_value do not stop at
\* a match, value_object ends as the last one; <<>> stands for None
RECURSIVE last_value_object(_, _, _, _, _, _)
last_value_object(parameters, p, v, parameter_name, value_name, value_object) ==
    IF p > Len(parameters) THEN value_object
    ELSE IF parameters[p].name # parameter_name \/ v > Len(parameters[p].values)
         THEN last_value_object(parameters, p + 1, 1, parameter_name, value_name, value_object)
         ELSE last_value_object(parameters, p, v + 1, parameter_name, value_name,
                  IF parameters[p].values[v].value = value_name THEN <<p, v>>
                  ELSE value_object)

add_description_to_json_object_parameter_value(JSON_object, parameter_name, value_name, value_description) ==
    LET value_object ==
            last_value_object(JSON_object.parameters, 1, 1, parameter_name, value_name, <<>>)
    IN IF value_object # <<>>
       THEN [JSON_object EXCEPT
               !.parameters[value_object[1]].values[value_object[2]] =
                   SetKey(@, "description", value_description)]
       ELSE JSON_object

\* the first index from a on of an action that has the wanted name, method and
\* uriTemplate, 0 when there is none: the loop over the actions stops there
RECURSIVE first_action(_, _, _)
first_action(actions, a, wanted_object) ==
    IF a > Len(actions) THEN 0
    ELSE IF /\ actions[a].name = wanted_object.name
            /\ actions[a].method = wanted_object.method
            /\ actions[a].attributes.uriTemplate = wanted_object.uriTemplate
         THEN a
         ELSE first_action(actions, a + 1, wanted_object)

\* the first index from r on of a resource that has the wanted name and
\* uriTemplate, 0 when there is none: the loop over the resources stops there
RECURSIVE first_resource(_, _, _)
first_resource(resources, r, wanted_object) ==
    IF r > Len(resources) THEN 0
    ELSE IF /\ resources[r].name = wanted_object.name
            /\ resources[r].uriTemplate = wanted_object.uriTemplate
         THEN r
         ELSE first_resource(resources, r + 1, wanted_object)

\* the search stopping at the first match of the document
find_first_object(resourceGroups, g, r, wanted_object, found_object) ==
    LET found == {<<i, j>> \in (1..Len(resourceGroups)) \X (1..MaxResources + 1) :
                     /\ j <= Len(resourceGroups[i].resources)
                     /\ IF "method" \in DOMAIN wanted_object
                        THEN first_action(resourceGroups[i].resources[j].actions, 1,
                                          wanted_object) # 0
                        ELSE first_resource(<<resourceGroups[i].resources[j]>>, 1,
                                            wanted_object) # 0}
    IN IF found = {} THEN found_object
       ELSE LET first == CHOOSE f \in found : \A o \in found :
                             f[1] < o[1] \/ (f[1] = o[1] /\ f[2] <= o[2])
            IN IF "method" \in DOMAIN wanted_object
               THEN <<first[1], first[2],
                      first_action(resourceGroups[first[1]].resources[first[2]].actions, 1,
                                   wanted_object)>>
               ELSE first

\* the loops of add_description_to_json_parameter_value over the groups, g, and
\* with a method over the resources, r: break leaves the innermost loop only, so
\* found_object ends as the match of the last group (or resource) that has one
RECURSIVE find_object(_, _, _, _, _)
find_object(resourceGroups, g, r, wanted_object, found_object) ==
    IF g > Len(resourceGroups) THEN found_object
    ELSE IF "method" \in DOMAIN wanted_object
    THEN IF r > Len(resourceGroups[g].resources)
         THEN find_object(resourceGroups, g + 1, 1, wanted_object, found_object)
         ELSE LET a == first_action(resourceGroups[g].resources[r].actions, 1, wanted_object)
              IN find_object(resourceGroups, g, r + 1, wanted_object,
                             IF a # 0 THEN <<g, r, a>> ELSE found_object)
    ELSE LET first == first_resource(resourceGroups[g].resources, 1, wanted_object)
         IN find_object(resourceGroups, g + 1, 1, wanted_object,
                        IF first # 0 THEN <<g, first>> ELSE found_object)

\* lines 451-455: the description is written into found_object, when there
\* is one, and the document is dumped
describe_found_object(json_content, found_object, parameter_name, value_name, value_description) ==
    [ok |-> TRUE,
     json |->
       IF found_object = <<>> THEN json_content
       ELSE IF Len(found_object) = 3
       THEN [json_content EXCEPT
               !.resourceGroups[found_object[1]].resources[found_object[2]]
                   .actions[found_object[3]] =
                       add_description_to_json_object_parameter_value(
                           @, parameter_name, value_name, value_description)]
       ELSE [json_content EXCEPT
               !.resourceGroups[found_object[1]].resources[found_object[2]] =
                   add_description_to_json_object_parameter_value(
                       @, parameter_name, value_name, value_description)]]

\* lines 432-455, wanted_object being what extract_markdown_header_dict gave:
\* nothing is written when it raised
describe_wanted_object(json_content, wanted_object, parameter_name, value_name, value_description) ==
    IF wanted_object.raised THEN [ok |-> FALSE, json |-> json_content]
    ELSE describe_found_object(
             json_content,
             find_object(json_content.resourceGroups, 1, 1, wanted_object.value, <<>>),
             parameter_name, value_name, value_description)

\* add_description_to_json_parameter_value: the document it dumps; it raises
\* when extract_markdown_header_dict does
add_description_to_json_parameter_value(json_content, resource_or_action_markdown_header, parameter_name, value_name, value_description) ==
    describe_wanted_object(
        json_content, extract_markdown_header_dict(resource_or_action_markdown_header),
        parameter_name, value_name, value_description)


(* The documents and the descriptions of the annotator *)
ParameterName == <<"p">>
OtherParameterName == <<"q">>
ValueName == <<"x">>
ValueDescription == <<"d">>
OtherName == <<"B">>

\* two parameters of the same name, the second with the same value twice
Parameters ==
    <<[name |-> ParameterName, values |-> <<[value |-> ValueName]>>],
      [name |-> ParameterName, values |-> <<[value |-> ValueName], [value |-> ValueName]>>]>>

AnnotatedAction(method, parameters) ==
    [name |-> PlainName, method |-> method, attributes |-> [uriTemplate |-> HeaderUri],
     parameters |-> parameters]

AnnotatedActions ==
    {AnnotatedAction(GET, Parameters), AnnotatedAction(GET, <<>>),
     AnnotatedAction(POST, Parameters)}

AnnotatedHeadings ==
    {[name |-> PlainName, parameters |-> Parameters],
     [name |-> PlainName, parameters |-> <<>>],
     [name |-> OtherName, parameters |-> Parameters]}

\* The search for a resource key reads the name and the uriTemplate of the
\* resources only, the search for an action key the actions only: the documents
\* vary the one or the other.
\* the lists of count resources of any heading, each with one action
RECURSIVE AnnotatedHeadingLists(_)
AnnotatedHeadingLists(count) ==
    IF count = 0 THEN {<<>>}
    ELSE {<<[name |-> h.name, uriTemplate |-> HeaderUri, parameters |-> h.parameters,
             actions |-> <<AnnotatedAction(GET, Parameters)>>]>> \o rest :
             h \in AnnotatedHeadings, rest \in AnnotatedHeadingLists(count - 1)}

\* the lists of count resources of one heading that hold at most n actions
\* between them
RECURSIVE AnnotatedActionLists(_, _)
AnnotatedActionLists(count, n) ==
    IF count = 0 THEN {<<>>}
    ELSE UNION {
           {<<[name |-> PlainName, uriTemplate |-> HeaderUri, parameters |-> Parameters,
               actions |-> actions]>> \o rest :
               actions \in [1..k -> AnnotatedActions],
               rest \in AnnotatedActionLists(count - 1, n - k)} : k \in 0..n}

AnnotatedResources(count, n) == AnnotatedHeadingLists(count) \cup AnnotatedActionLists(count, n)

\* one or two groups holding up to MaxResources resources and up to MaxActions
\* actions between them
AnnotatedDocuments ==
    UNION {
      {[resourceGroups |-> <<[name |-> GroupName, resources |-> resources]>>]}
      \cup {[resourceGroups |->
               <<[name |-> GroupName, resources |-> SubSeq(resources, 1, cut)],
                 [name |-> GroupName, resources |-> SubSeq(resources, cut + 1, Len(resources))]>>] :
            cut \in 0..Len(resources)} :
      resources \in UNION {AnnotatedResources(c, MaxActions) : c \in 0..MaxResources}}

\* the descriptions extracted from the blueprint: the header of a resource or
\* of an action, a parameter name, a value name, the description of the value
NestedDescriptions ==
    {[parent |-> Header(1, PlainName, qualifier), parameter |-> parameter,
      value |-> ValueName, description |-> ValueDescription] :
        qualifier \in Qualifiers \ {NoQualifier},
        parameter \in {ParameterName, OtherParameterName}}

InitAnnotate ==
    /\ ast_pc = "add_description_to_json_parameter_value"
    /\ JSON_file \in AnnotatedDocuments
    /\ call_pc = "call"
    /\ callee = "add_description_to_json_parameter_value"
    /\ argument \in NestedDescriptions
    /\ returned = <<>>

\* the call is over: the document is dumped, or the call raised
Described(result) ==
    /\ JSON_file' = result.json
    /\ ast_pc' = IF result.ok THEN "described" ELSE "aborted"
    /\ returned' = IF result.ok THEN Returns(None) ELSE Raises
    /\ call_pc' = "done"
    /\ UNCHANGED <<callee, argument>>
    /\ UNCHANGED <<splitVars, metaVars, linkVars>>

\* lines 797-801: one call of add_description_to_json_parameter_value
AddDescription ==
    /\ ast_pc = "add_description_to_json_parameter_value"
    /\ Described(add_description_to_json_parameter_value(
                     JSON_file, argument.parent, argument.parameter, argument.value,
                     argument.description))

NextAnnotate == AddDescription

AnnotateOnly == InitAnnotate /\ IdleSplit /\ IdleMeta /\ IdleLinks

\* the specification of the annotator
SpecAnnotate == AnnotateOnly /\ [][NextAnnotate]_vars


-----------------------------------------------------------------------------
(* ParameterValueAnnotator: properties *)

\* the key extracted from the header of the description
WantedKey == extract_markdown_header_dict(argument.parent).value

\* the positions <<group, resource, action>> of the nodes of the document,
\* action 0 for the resource itself
NodePositions(json_content) ==
    {n \in (1..Len(json_content.resourceGroups)) \X (1..MaxResources + 1) \X (0..MaxActions + 1) :
        /\ n[2] <= Len(json_content.resourceGroups[n[1]].resources)
        /\ n[3] <= Len(json_content.resourceGroups[n[1]].resources[n[2]].actions)}

NodeAt(json_content, n) ==
    IF n[3] = 0 THEN json_content.resourceGroups[n[1]].resources[n[2]]
    ELSE json_content.resourceGroups[n[1]].resources[n[2]].actions[n[3]]

\* the nodes the key identifies
MatchingNodes(json_content) ==
    {n \in NodePositions(json_content) :
        LET node == NodeAt(json_content, n)
        IN IF "method" \in DOMAIN WantedKey
           THEN /\ n[3] # 0
                /\ node.name = WantedKey.name
                /\ node.method = WantedKey.method
                /\ node.attributes.uriTemplate = WantedKey.uriTemplate
           ELSE /\ n[3] = 0
                /\ node.name = WantedKey.name
                /\ node.uriTemplate = WantedKey.uriTemplate}

\* the positions <<parameter, value>> in a node of the values with the names
\* of the description
NamedValues(node) ==
    {pv \in (1..Len(node.parameters)) \X (1..3) :
        /\ pv[2] <= Len(node.parameters[pv[1]].values)
        /\ node.parameters[pv[1]].name = argument.parameter
        /\ node.parameters[pv[1]].values[pv[2]].value = argument.value}

\* the document with the description written to one value of one node
Overwritten(json_content, n, pv) ==
    LET described(node) ==
            [node EXCEPT !.parameters[pv[1]].values[pv[2]] =
                             SetKey(@, "description", argument.description)]
    IN IF n[3] = 0
       THEN [json_content EXCEPT !.resourceGroups[n[1]].resources[n[2]] = described(@)]
       ELSE [json_content EXCEPT
               !.resourceGroups[n[1]].resources[n[2]].actions[n[3]] = described(@)]

Before(a, b) ==
    \E i \in 1..Len(a) : a[i] < b[i] /\ \A j \in 1..(i - 1) : a[j] = b[j]

Last(positions) == CHOOSE p \in positions : \A q \in positions : q = p \/ Before(q, p)

Annotates == ast_pc = "add_description_to_json_parameter_value" /\ ast_pc' # ast_pc

\* C12 (as claimed): the call raises no error; it leaves the document unchanged
\* if the key matches no node or more than one node, or the parameter or value
\* name is not found; only when exactly one node matches is exactly one value's
\* description overwritten.
C12_NoOpUnlessUnique ==
    [][Annotates =>
         /\ ~returned'.raised
         /\ LET matching == MatchingNodes(JSON_file)
            IN IF Cardinality(matching) = 1
                  /\ \A n \in matching : NamedValues(NodeAt(JSON_file, n)) # {}
               THEN \E n \in matching : \E pv \in NamedValues(NodeAt(JSON_file, n)) :
                        JSON_file' = Overwritten(JSON_file, n, pv)
               ELSE JSON_file' = JSON_file]_vars

\* the node the lookup ends with among several matches: the first matching
\* resource of the last group that has one, the first matching action of the
\* last resource that has one
Selected(matching) ==
    LET last == Last(matching)
        same == {n \in matching :
                    n[1] = last[1] /\ ("method" \in DOMAIN WantedKey => n[2] = last[2])}
    IN CHOOSE n \in same : \A o \in same : o = n \/ Before(n, o)

\* C12 (amended): the call raises no error; it leaves the document unchanged if
\* the key matches no node, or the node the lookup ends with has no value of
\* that name under a parameter of that name; otherwise, with one match or with
\* several, it overwrites exactly one description: that of the last such value
\* of the node the lookup ends with.
C12_LastMatchAnnotated ==
    [][Annotates =>
         /\ ~returned'.raised
         /\ LET matching == MatchingNodes(JSON_file)
            IN IF matching = {} \/ NamedValues(NodeAt(JSON_file, Selected(matching))) = {}
               THEN JSON_file' = JSON_file
               ELSE JSON_file' =
                        Overwritten(JSON_file, Selected(matching),
                                    Last(NamedValues(NodeAt(JSON_file, Selected(matching)))))]_vars

\* a description was written although two nodes have the key
C12_Witness ==
    /\ ast_pc = "described"
    /\ Cardinality(MatchingNodes(JSON_file)) >= 2
    /\ \E n \in MatchingNodes(JSON_file) :
          \E pv \in NamedValues(NodeAt(JSON_file, n)) :
             "description" \in DOMAIN NodeAt(JSON_file, n).parameters[pv[1]].values[pv[2]]


-----------------------------------------------------------------------------
(* MetadataTreeBuilder: no heading is lost *)

\* the heading lines of the stream, in order
HeadingLinesOf(lines) == SelectSeq(lines, LAMBDA l : startswith(l, <<"#">>))

\* the sections below section p (0: the root) in a pre-order walk of the tree
RECURSIVE PreOrder(_)
RECURSIVE PreOrderOf(_)
PreOrderOf(children) ==
    IF children = <<>> THEN <<>>
    ELSE <<Head(children)>> \o PreOrder(Head(children)) \o PreOrderOf(Tail(children))
PreOrder(p) == PreOrderOf(subsections(p))

\* C17: when parse_meta_data returns, the tree holds exactly one section per
\* heading line of the metadata stream and a pre-order walk of the tree visits
\* the sections in document order.
C17_NoHeadingLost ==
    meta_pc = "done" =>
        /\ Len(metadata) = Len(HeadingLinesOf(meta_file))
        /\ PreOrder(0) = [i \in 1..Len(metadata) |-> i]
        /\ \A i \in 1..Len(metadata) : metadata[i].heading = HeadingLinesOf(meta_file)[i]


\* what a pass that only flags resources leaves alone: every key of the
\* document, of its groups and of its resources but ignoreTOC
OnlyFlagsDiffer(before, after) ==
    /\ DOMAIN after = DOMAIN before
    /\ \A k \in DOMAIN before \ {"resourceGroups"} : after[k] = before[k]
    /\ Len(after.resourceGroups) = Len(before.resourceGroups)
    /\ \A g \in 1..Len(before.resourceGroups) :
         LET group_before == before.resourceGroups[g]
             group_after == after.resourceGroups[g]
         IN /\ DOMAIN group_after = DOMAIN group_before
            /\ \A k \in DOMAIN group_before \ {"resources"} : group_after[k] = group_before[k]
            /\ Len(group_after.resources) = Len(group_before.resources)
            /\ \A r \in 1..Len(group_before.resources) :
                 /\ DOMAIN group_after.resources[r] \ {"ignoreTOC"}
                        = DOMAIN group_before.resources[r] \ {"ignoreTOC"}
                 /\ \A k \in DOMAIN group_before.resources[r] \ {"ignoreTOC"} :
                        group_after.resources[r][k] = group_before.resources[r][k]

\* C15: find_and_mark_empty_resources completes, every resource of the document
\* it dumps (with zero, one or several actions) has a boolean ignoreTOC, true
\* iff its sole action shares its name, and no node is deleted and no other
\* field (no name) is changed.
C15_EveryResourceFlagged ==
    [][MarkEmptyResources =>
         /\ ast_pc' # "aborted"
         /\ OnlyFlagsDiffer(JSON_file, JSON_file')
         /\ \A resource \in Resources(JSON_file') :
              /\ "ignoreTOC" \in DOMAIN resource
              /\ resource.ignoreTOC \in BOOLEAN
              /\ resource.ignoreTOC = SharesName(resource)]_vars


-----------------------------------------------------------------------------
(* DataStructurePropertyParser: parse_defined_data_structure_properties *)

get_indentation_up_to_one(line) == IF line # <<>> /\ Head(line) \in {" ", TAB} THEN 1 ELSE 0
get_indentation(line) == Len(run_inside(line, {" ", TAB}))

\* parse_defined_data_structure_properties: member_loop is its while loop,
\* with the local last_member_indentation. properties_list and the deque
\* remaining_property_lines are changed in place by the code, so a call gives
\* back both. parsed_attribute_definition, bound by the equal-indentation
\* branch, is the element that branch appended last: the first non-blank line
\* of a call always takes that branch (it sets last_member_indentation).
RECURSIVE parse_defined_data_structure_properties(_, _)
RECURSIVE member_loop(_, _, _)
member_loop(properties_list, remaining_property_lines, last_member_indentation) ==
    IF Len(remaining_property_lines) = 0
    THEN Returns([properties_list |-> properties_list,
                  remaining_property_lines |-> remaining_property_lines])
    ELSE LET property_member_declaration == remaining_property_lines[1]
             current_member_indentation == get_indentation(property_member_declaration)
             last == IF last_member_indentation = -1
                     THEN current_member_indentation
                     ELSE last_member_indentation
         IN IF property_member_declaration = <<>>
            THEN member_loop(properties_list, Tail(remaining_property_lines),
                             last_member_indentation)
            ELSE IF current_member_indentation = last
            THEN LET parsed_attribute_definition ==
                         parse_property_member_declaration(property_member_declaration)
                 IN IF parsed_attribute_definition.raised THEN Raises
                    ELSE member_loop(Append(properties_list, parsed_attribute_definition.value),
                                     Tail(remaining_property_lines), last)
            ELSE IF current_member_indentation > last
            THEN LET n == Len(properties_list)
                     inner == parse_defined_data_structure_properties(
                                  properties_list[n].subproperties, remaining_property_lines)
                 IN IF inner.raised THEN Raises
                    ELSE member_loop(
                             [properties_list EXCEPT ![n].subproperties = inner.value.properties_list],
                             inner.value.remaining_property_lines, last)
            ELSE Returns([properties_list |-> properties_list,
                          remaining_property_lines |-> remaining_property_lines])

parse_defined_data_structure_properties(properties_list, remaining_property_lines) ==
    member_loop(properties_list, remaining_property_lines, -1)

\* parse_defined_data_structures, lines 558-560: the properties of one data
\* structure, from the text of its first section
data_structure_definition(data_structure_content) ==
    parse_defined_data_structure_properties(<<>>, split(data_structure_content, NL))


(* The data structures of the model: declaration lines '<indentation>+ <name>
   (string)', the name telling the line, and blank lines *)
MaxPropertyLines == 4
MaxIndentation == 2

IndentationStep == 2

Indentations == {<<>>} \cup {[i \in 1..(IndentationStep * n) |-> " "] : n \in 1..MaxIndentation}

MemberName(k) == <<LOWERCASE[k]>>

MemberDeclaration(indentation, k) ==
    indentation \o <<"+", " ">> \o MemberName(k) \o <<" ", "(">> \o STRING_TYPE \o <<")">>

\* the k-th line of a content: blank, or a declaration of the name of line k
MemberLines(k) == {<<>>} \cup {MemberDeclaration(indentation, k) : indentation \in Indentations}

\* the contents of n lines
RECURSIVE LinesUpTo(_)
LinesUpTo(n) ==
    IF n = 0 THEN {<<>>}
    ELSE {Append(lines, line) : lines \in LinesUpTo(n - 1), line \in MemberLines(n)}

PropertyLines == UNION {LinesUpTo(n) : n \in 1..MaxPropertyLines}

\* "\n".join(lines)
RECURSIVE join_lines(_)
join_lines(lines) ==
    IF Len(lines) = 1 THEN lines[1]
    ELSE lines[1] \o <<NL>> \o join_lines(Tail(lines))

DataStructureContents == {join_lines(lines) : lines \in PropertyLines}

InitProperties ==
    /\ call_pc = "call"
    /\ callee = "parse_defined_data_structures"
    /\ argument \in DataStructureContents
    /\ returned = <<>>

ParseDefinedDataStructures ==
    /\ callee = "parse_defined_data_structures"
    /\ Return(data_structure_definition(argument))

NextProperties == ParseDefinedDataStructures

PropertiesOnly == InitProperties /\ IdleSplit /\ IdleMeta /\ IdleAst /\ IdleLinks

\* the specification of the parser of the data structure properties
SpecProperties == PropertiesOnly /\ [][NextProperties]_vars



-----------------------------------------------------------------------------
(* DataStructurePropertyParser: properties *)

Parsed == call_pc = "done" /\ callee = "parse_defined_data_structures"

\* the lines of the content, and the numbers of the lines that are not blank
ContentLines == split(argument, NL)

Declared == {k \in 1..Len(ContentLines) : ContentLines[k] # <<>>}

\* the column where the text of line k starts
Column(k) ==
    LET line == ContentLines[k]
    IN CHOOSE n \in 0..Len(line) :
         /\ \A i \in 1..n : line[i] \in {" ", TAB}
         /\ n < Len(line) => line[n + 1] \notin {" ", TAB}

\* the line a property was declared on: its name tells it
LineOf(property) == CHOOSE k \in 1..MaxPropertyLines + 1 : MemberName(k) = property.name

\* the pairs <<line of the parent, line of the property>> of a tree, 0 for the
\* properties of the top list
RECURSIVE Edges(_, _)
Edges(properties_list, parent) ==
    UNION {{<<parent, LineOf(properties_list[i])>>}
              \cup Edges(properties_list[i].subproperties, LineOf(properties_list[i])) :
           i \in 1..Len(properties_list)}

\* the sibling lists of a tree, each as the sequence of the lines of its members
RECURSIVE SiblingLists(_)
SiblingLists(properties_list) ==
    {[i \in 1..Len(properties_list) |-> LineOf(properties_list[i])]}
    \cup UNION {SiblingLists(properties_list[i].subproperties) : i \in 1..Len(properties_list)}

RECURSIVE Size(_)
Size(properties_list) ==
    IF properties_list = <<>> THEN 0
    ELSE 1 + Size(properties_list[1].subproperties) + Size(Tail(properties_list))

\* the last declaration before line j that is indented less than line j, 0
\* when there is none
Encloser(j) ==
    LET less == {k \in Declared : k < j /\ Column(k) < Column(j)}
    IN IF less = {} THEN 0 ELSE CHOOSE k \in less : \A other \in less : other <= k

\* line j continues the sibling list that line first opened: same column, and
\* no declaration between them is indented less
Continues(first, j) ==
    /\ j \in Declared
    /\ first < j
    /\ Column(j) = Column(first)
    /\ \A k \in Declared : (first < k /\ k < j) => Column(k) >= Column(first)

\* C18: in the tree returned for well-formed declaration lines and blank
\* lines, every subproperty comes from a line indented strictly more than the
\* line of its parent, and its parent is the property appended last before it
\* in the enclosing list (the last declaration before it that is indented
\* less); the members of a list are in source order and the lines that keep
\* the indentation of the list's first line are members of it; and the blank
\* lines do not count: without them the tree is the same.
C18_IndentationInvariant ==
    Parsed =>
        /\ ~returned.raised
        /\ LET properties_list == returned.value.properties_list
           IN /\ \A edge \in Edges(properties_list, 0) :
                   /\ edge[1] # 0 => Column(edge[2]) > Column(edge[1])
                   /\ edge[1] = Encloser(edge[2])
              /\ \A siblings \in SiblingLists(properties_list) :
                   /\ \A i, j \in 1..Len(siblings) : i < j => siblings[i] < siblings[j]
                   /\ siblings # <<>> =>
                        \A j \in Declared :
                            Continues(siblings[1], j) =>
                                \E i \in 1..Len(siblings) : siblings[i] = j
              /\ parse_defined_data_structure_properties(
                     <<>>, SelectSeq(ContentLines, LAMBDA line : line # <<>>)).value.properties_list
                   = properties_list

\* a property, a blank line, two subproperties of it with a blank line
\* between them: the tree has the two siblings under the first property
C18_Witness ==
    /\ Parsed
    /\ ~returned.raised
    /\ Len(ContentLines) = 4
    /\ Declared = {1, 3, 4} \/ Declared = {1, 2, 4}
    /\ Column(1) = 0
    /\ \A k \in Declared \ {1} : Column(k) = IndentationStep
    /\ Len(returned.value.properties_list) = 1
    /\ Len(returned.value.properties_list[1].subproperties) = 2

\* C19: the call returns with the queue of lines empty and every declaration
\* line is one property of the tree, also when the first line is indented
\* more than a later line.
C19_NoDeclarationDropped ==
    Parsed =>
        /\ ~returned.raised
        /\ returned.value.remaining_property_lines = <<>>
        /\ {edge[2] : edge \in Edges(returned.value.properties_list, 0)} = Declared
        /\ Size(returned.value.properties_list) = Cardinality(Declared)



-----------------------------------------------------------------------------
(* render_api_specification: the structural parser and the passes after it *)

\* no file at API_blueprint_JSON_file_path
Absent == [absent |-> TRUE]

\* add_metadata_to_json: open() raises IOError when there is no file
add_metadata_to_json(api_metadata, json_content) ==
    IF json_content = Absent THEN [ok |-> FALSE, json |-> json_content]
    ELSE [ok |-> TRUE, json |-> SetKey(json_content, "api_metadata", api_metadata)]

\* the file an earlier run of render_api_specification on a document leaves in
\* the temporary directory when it is told not to clear it
EarlierRun(document) ==
    Then(Then(Then(Then(Then(Then(
        add_metadata_to_json(<<>>, document),
        find_and_mark_empty_resources),
        escape_requests_responses_json),
        LAMBDA json_content : escape_ampersand_uri_templates(json_content, {})),
        generate_resources_and_action_ids),
        remove_redundant_spaces),
        LAMBDA json_content : add_is_pdf_metadata_to_json(FALSE, json_content))

StagedFiles ==
    {Absent} \cup {EarlierRun(document).json : document \in ExampleDocuments}

\* the exit status of drafter: 0, or not
ExitStatuses == {0, 1}

\* line 949 is over: the blueprint part is written, the JSON file is absent
\* or left over, and drafter is about to be called
InitRender ==
    /\ ast_pc = "parser_api_blueprint"
    /\ JSON_file \in StagedFiles
    /\ call_pc = "call"
    /\ callee = "drafter"
    /\ argument = <<>>
    /\ returned = <<>>

\* line 951, parser_api_blueprint: call([...]) gives the exit status of
\* drafter, which nobody reads. With status 0 drafter has written a
\* document; with another status it has left the file as it was.
ParserApiBlueprint ==
    /\ ast_pc = "parser_api_blueprint"
    /\ call_pc = "call"
    /\ \E status \in ExitStatuses :
         /\ returned' = status
         /\ IF status = 0
            THEN JSON_file' \in ResourceDocuments \cup ExampleDocuments
            ELSE JSON_file' = JSON_file
    /\ call_pc' = "done"
    /\ ast_pc' = "add_metadata_to_json"
    /\ UNCHANGED <<callee, argument>>
    /\ UNCHANGED <<splitVars, metaVars, linkVars>>

\* line 952
AddMetadata ==
    /\ ast_pc = "add_metadata_to_json"
    /\ RunPass(add_metadata_to_json(metadata, JSON_file), "find_and_mark_empty_resources")

NextRender ==
    \/ ParserApiBlueprint
    \/ AddMetadata
    \/ NextAst

RenderOnly == InitRender /\ IdleSplit /\ IdleMeta /\ IdleLinks

\* the specification of the run from the call of drafter on
SpecRender == RenderOnly /\ [][NextRender]_vars


-----------------------------------------------------------------------------
(* render_api_specification: properties *)

\* drafter has exited with a non-zero status
ParserFailed == call_pc = "done" /\ callee = "drafter" /\ returned # 0

\* C13: once the structural parser has exited with a non-zero status, the
\* run aborts: the next step changes nothing in the staged JSON file (absent
\* or left over) and ends the run, so that no pass writes a document and
\* nothing is rendered.
C13_ParserFailureAborts ==
    [][ParserFailed => (JSON_file' = JSON_file /\ ast_pc' = "aborted")]_vars



-----------------------------------------------------------------------------
(* DocumentSplitter: documents with Parameters blocks *)

\* '- a (b) - (c) - (d)': parentheses before the first ' - ', between the
\* first and the second, and after the second
TwoDashBullet ==
    <<"-", " ", "a", " ", "(", "b", ")", " ", "-", " ", "(", "c", ")",
      " ", "-", " ", "(", "d", ")", NL>>

\* a line of spaces
SpacesLine == <<" ", " ", NL>>

\* '+ Parameters' after a tab: not the marker, a bullet inside a block
IndentedParametersHeader == <<TAB>> \o PlainParametersHeader

\* The first line has no colon, so the title phase begins at once and every
\* line up to one beginning with "##" goes to the blueprint stream; SectionLine
\* goes to the metadata stream and UriLine begins the blueprint part.
ParameterVocabulary ==
    {PlainParametersHeader, TwoDashBullet, SpacesLine, TextLine,
     IndentedParametersHeader, SectionLine, UriLine}

RECURSIVE ParameterDocumentsOf(_)
ParameterDocumentsOf(n) ==
    IF n = 0 THEN {<<>>}
    ELSE {Append(lines, line) :
             lines \in ParameterDocumentsOf(n - 1), line \in ParameterVocabulary}

ParameterDocuments == UNION {ParameterDocumentsOf(n) : n \in 0..MaxLines}

InitParameters ==
    /\ pc = "title"
    /\ input_file \in ParameterDocuments
    /\ pos = 0
    /\ metadata_section = TRUE
    /\ apib_part = FALSE
    /\ title_section = FALSE
    /\ parameters_section = FALSE
    /\ extra_sections_file = <<>>
    /\ API_blueprint_file = <<>>

ParametersOnly == InitParameters /\ IdleMeta /\ IdleAst /\ IdleLinks /\ IdleCalls

\* the specification of the splitter on documents with Parameters blocks
SpecParameters == ParametersOnly /\ [][NextSplit]_vars


-----------------------------------------------------------------------------
(* Parameters blocks: properties *)

\* the line with every tab replaced by four spaces
RECURSIVE Untabbed(_)
Untabbed(line) ==
    IF line = <<>> THEN <<>>
    ELSE (IF Head(line) = TAB THEN <<" ", " ", " ", " ">> ELSE <<Head(line)>>)
         \o Untabbed(Tail(line))

\* the text of a line, without the newline that ends it
TextOf(line) ==
    IF line # <<>> /\ line[Len(line)] = NL THEN SubSeq(line, 1, Len(line) - 1) ELSE line

\* a bullet: after the indentation a '+', '|' or '-' and a space
IsBullet(line) ==
    \E n \in 0..Len(TextOf(line)) :
        /\ \A i \in 1..n : line[i] \in {" ", TAB}
        /\ n + 2 <= Len(TextOf(line))
        /\ line[n + 1] \in {"+", "|", "-"}
        /\ line[n + 2] = " "

IsBlank(line) == \A i \in 1..Len(TextOf(line)) : line[i] = " "

\* the places where ' - ' begins
Dashes(line) ==
    {i \in 1..(Len(line) - 2) : line[i] = " " /\ line[i + 1] = "-" /\ line[i + 2] = " "}

RECURSIVE Entities(_)
Entities(text) ==
    IF text = <<>> THEN <<>>
    ELSE (IF Head(text) = "(" THEN <<"&", "#", "4", "0", ";">>
          ELSE IF Head(text) = ")" THEN <<"&", "#", "4", "1", ";">>
          ELSE <<Head(text)>>)
         \o Entities(Tail(text))

\* the parentheses after place i of the line replaced by their entities
EscapedAfter(line, i) == SubSeq(line, 1, i) \o Entities(SubSeq(line, i + 1, Len(line)))

\* the line with the parentheses after its first ' - ' replaced
EscapedAfterFirstDash(line) ==
    IF Dashes(line) = {} THEN line
    ELSE EscapedAfter(line, 2 + CHOOSE i \in Dashes(line) : \A j \in Dashes(line) : i <= j)

\* whether the block is open after a line written to the blueprint stream
BlockAfter(open, line) ==
    IF open THEN IsBullet(line) \/ IsBlank(line) ELSE line = PlainParametersHeader

\* what is written for the line
WrittenFor(open, line) ==
    IF open /\ BlockAfter(open, line) THEN EscapedAfterFirstDash(line) ELSE line

\* C21: over the lines written to the blueprint stream, a line equal to
\* '+ Parameters' opens the block, a bullet or a blank line keeps it open and
\* any other line closes it; a line read while the block is open and keeping it
\* open is written with the parentheses after its first ' - ' replaced by their
\* entities, and every other line (the marker, the closing line, a line outside
\* a block) and the part up to the first ' - ' are written as they are; a line
\* that goes to the metadata stream leaves the block as it is.
C21_EscapingScope ==
    [][ReadsLine =>
          IF API_blueprint_file' = API_blueprint_file
          THEN parameters_section' = parameters_section
          ELSE /\ AppendsToBlueprint
               /\ parameters_section' = BlockAfter(parameters_section, Untabbed(input_file[pos']))
               /\ LastWritten = WrittenFor(parameters_section, Untabbed(input_file[pos']))]_vars

\* a block opened by the marker, a bullet escaped after its first ' - ' only,
\* a line with parentheses that closes the block, the same bullet outside it
C21_Witness ==
    /\ pc = "done"
    /\ input_file = <<PlainParametersHeader, TwoDashBullet, TextLine, TwoDashBullet>>
    /\ Len(API_blueprint_file) = 4
    /\ API_blueprint_file[1] = PlainParametersHeader
    /\ API_blueprint_file[2] =
         <<"-", " ", "a", " ", "(", "b", ")", " ", "-", " ",
           "&", "#", "4", "0", ";", "c", "&", "#", "4", "1", ";", " ", "-", " ",
           "&", "#", "4", "0", ";", "d", "&", "#", "4", "1", ";", NL>>
    /\ API_blueprint_file[3] = <<" ", " ", " ", " ", "x", " ", "-", " ", "(", "y", ")", NL>>
    /\ API_blueprint_file[4] = TwoDashBullet
    /\ ~parameters_section

=============================================================================
